---- MODULE Spec2Model ----
(***************************************************************************)
(* Model of the command framework of openlmi-scripts                        *)
(* (lmi/scripts/common/command/command.py and meta.py).                     *)
(*                                                                          *)
(* Strings that the code inspects character by character (option names)    *)
(* are sequences of one-character strings, so that the regular expressions *)
(* and opt_name_sanitize are computed, not assumed.                         *)
(***************************************************************************)
EXTENDS Integers, Sequences, FiniteSets, TLC

(* ------------------------------------------------------------------------ *)
(* Bounds of the model.                                                     *)
(* ------------------------------------------------------------------------ *)
\* longest option token enumerated exhaustively
MaxTokLen == 3
\* most entries of an option map drawn from the token pool
MaxOpts == 3

(* ------------------------------------------------------------------------ *)
(* Characters.                                                              *)
(* ------------------------------------------------------------------------ *)
LowerLetters == {"a", "b", "c"}
UpperLetters == {"A", "B", "C"}
Letters == LowerLetters \cup UpperLetters
Digits == {"1"}
\* the characters tokens are enumerated over
Alphabet == {"a", "A", "-", "_", "<", ">", "1"}

\* str.lower() on one character
ToLower(c) ==
    CASE c = "A" -> "a"
      [] c = "B" -> "b"
      [] c = "C" -> "c"
      [] OTHER   -> c

(* ------------------------------------------------------------------------ *)
(* The regular expressions of command.py, lines 46-49, and                  *)
(* base.RE_COMMAND_NAME.  Each operator is re.match on the whole token.     *)
(* ------------------------------------------------------------------------ *)
\* '^<(?P<name>[^>]+)>$'
RE_OPT_BRACKET_ARGUMENT(t) ==
    /\ Len(t) >= 3
    /\ t[1] = "<"
    /\ t[Len(t)] = ">"
    /\ \A i \in 2..(Len(t) - 1) : t[i] # ">"

\* '^(?P<name>[A-Z]+(?:[_-][A-Z]+)*)$'
RE_OPT_UPPER_ARGUMENT(t) ==
    /\ Len(t) >= 1
    /\ \A i \in 1..Len(t) : t[i] \in UpperLetters \cup {"_", "-"}
    /\ t[1] \in UpperLetters
    /\ t[Len(t)] \in UpperLetters
    /\ \A i \in 1..(Len(t) - 1) :
          t[i] \in {"_", "-"} => t[i + 1] \in UpperLetters

\* '^-(?P<name>[a-z])$', re.IGNORECASE
RE_OPT_SHORT_OPTION(t) ==
    /\ Len(t) = 2
    /\ t[1] = "-"
    /\ t[2] \in Letters

\* '^--(?P<name>[a-z_-]+)$', re.IGNORECASE
RE_OPT_LONG_OPTION(t) ==
    /\ Len(t) >= 3
    /\ t[1] = "-"
    /\ t[2] = "-"
    /\ \A i \in 3..Len(t) : t[i] \in Letters \cup {"_", "-"}

\* base.RE_COMMAND_NAME: the command-name token grammar
\* (lowercase letters, digits, dashes)
RE_COMMAND_NAME(t) ==
    /\ Len(t) >= 1
    /\ \A i \in 1..Len(t) : t[i] \in LowerLetters \cup Digits \cup {"-"}

\* opt_name_sanitize without the call of lower()
opt_name_sanitize_NoLower(s) ==
    [i \in 1..Len(s) |-> IF s[i] \in Letters THEN s[i] ELSE "_"]

\* re.sub(r'[^a-zA-Z]', '_', opt_name).lower()
opt_name_sanitize(s) ==
    [i \in 1..Len(s) |-> IF s[i] \in Letters THEN ToLower(s[i]) ELSE "_"]

\* whether one of the five expressions of the inner loop matches
Recognized(t) ==
    \/ RE_OPT_BRACKET_ARGUMENT(t)
    \/ RE_OPT_UPPER_ARGUMENT(t)
    \/ RE_OPT_SHORT_OPTION(t)
    \/ RE_OPT_LONG_OPTION(t)
    \/ RE_COMMAND_NAME(t)

\* the inner loop with a bracket argument contributing the whole match
\* (group(0)) as the options do
MatchedName_Group0(t) == t

\* the inner loop of options_dict2kwargs (lines 78-87): the first matching
\* expression decides what the token contributes
MatchedName(t) ==
    CASE RE_OPT_BRACKET_ARGUMENT(t) -> SubSeq(t, 2, Len(t) - 1)
      [] RE_OPT_UPPER_ARGUMENT(t)   -> t
      [] RE_OPT_SHORT_OPTION(t)     -> t
      [] RE_OPT_LONG_OPTION(t)      -> t
      [] OTHER                      -> t

\* lines 86-91 for one recognized token
NewName(t) == opt_name_sanitize(MatchedName(t))

\* what options_dict2kwargs returns or raises
KwOk(kwargs) == [kind |-> "ok", kwargs |-> kwargs]
KwErr(kind, names, new) == [kind |-> kind, names |-> names, new |-> new]

\* the outer loop of options_dict2kwargs (lines 77-96) over the keys in
\* the order `order`, from position i, with the dictionaries built so far
RECURSIVE Dict2KwargsLoop(_, _, _, _, _)
Dict2KwargsLoop(options, order, i, kwargs, orig_names) ==
    IF i > Len(order) THEN KwOk(kwargs)
    ELSE LET name == order[i]
             new_name == NewName(name)
         IN  IF ~Recognized(name)
             THEN KwErr("convert", <<name>>, <<>>)
             ELSE IF new_name \in DOMAIN kwargs
             THEN KwErr("clash", <<name, orig_names[new_name]>>, new_name)
             ELSE Dict2KwargsLoop(options, order, i + 1,
                      (new_name :> options[name]) @@ kwargs,
                      (new_name :> name) @@ orig_names)

\* the empty dictionary
EmptyDict == [x \in {} |-> 0]

\* options_dict2kwargs without the test of lines 92-94: a later token
\* overwrites an earlier one of the same new name
RECURSIVE Dict2KwargsOverwrite(_, _, _, _)
Dict2KwargsOverwrite(options, order, i, kwargs) ==
    IF i > Len(order) THEN KwOk(kwargs)
    ELSE IF ~Recognized(order[i])
    THEN KwErr("convert", <<order[i]>>, <<>>)
    ELSE Dict2KwargsOverwrite(options, order, i + 1,
             (NewName(order[i]) :> options[order[i]]) @@ kwargs)

options_dict2kwargs_Overwrite(options, order) ==
    Dict2KwargsOverwrite(options, order, 1, EmptyDict)

\* options_dict2kwargs(options), the dictionary being iterated in `order`
options_dict2kwargs(options, order) ==
    Dict2KwargsLoop(options, order, 1, EmptyDict, EmptyDict)

(* ------------------------------------------------------------------------ *)
(* Helpers.                                                                 *)
(* ------------------------------------------------------------------------ *)
\* all sequences over S of length exactly n
RECURSIVE SeqsOfLen(_, _)
SeqsOfLen(S, n) ==
    IF n = 0 THEN {<<>>}
    ELSE {Append(s, c) : s \in SeqsOfLen(S, n - 1), c \in S}

\* all orders in which the elements of the finite set S can be iterated
RECURSIVE Orders(_)
Orders(S) ==
    IF S = {} THEN {<<>>}
    ELSE UNION {{<<x>> \o o : o \in Orders(S \ {x})} : x \in S}

\* every token of 1..MaxTokLen characters
Tokens == UNION {SeqsOfLen(Alphabet, n) : n \in 1..MaxTokLen}

\* tokens of every shape, tokens of no shape, and pairs that normalize alike
OptionPool ==
    { <<"<", "a", ">">>, <<"A">>, <<"a">>, <<"-", "a">>, <<"-", "A">>,
      <<"-", "-", "a", "-", "b">>, <<"-", "-", "a", "_", "b">>,
      <<"A", "-", "B">>, <<"<", ">">>, <<"a", "A">> }

\* values docopt stores under a token
Values == {"v1", "v2"}

\* the option maps conversion is run on: every single token, and every map
\* of at most MaxOpts tokens of the pool
OptionMaps ==
    UNION {[S -> Values] :
             S \in {{t} : t \in Tokens}
                   \cup {S \in SUBSET OptionPool : Cardinality(S) <= MaxOpts}}

(* ------------------------------------------------------------------------ *)
(* State.                                                                   *)
(* ------------------------------------------------------------------------ *)
VARIABLES
    pc,        \* position of the running invocation
    options,   \* the parsed options (docopt's dictionary)
    kwres,     \* what options_dict2kwargs returned or raised
    help,      \* the --help flag docopt parsed for the multiplexer
    cmd_name,  \* the token handed to run_subcommand
    cls,       \* the end-point command class run_subcommand instantiated
    verified,  \* the options verify_options was given
    bound,     \* (args, kwargs) made by _make_end_point_args
    session,   \* the session: its hosts and those that failed to connect
    invoked,   \* the action's invocations: host and outcome, in order
    out,       \* what was written to app.stdout / handed to a formatter
    err,       \* what was written to app.stderr
    failures,  \* LmiShowInstance.process_session: failures
    results,   \* LmiCheckResult.process_session: results
    saved,     \* LmiCheckResult.results; at registration, the classes
               \* built before the one being declared
    ret,       \* the value returned to the caller of run()
    exc,       \* the exception propagating, "none" if none
    tree       \* the local variables of cmd_tree and what it yielded

\* cmd_tree: devices, id -> whether the device is Primordial
devices == tree.devices
\* cmd_tree: deps, the list of (parent id, child id)
deps == tree.deps
\* cmd_tree: queue, the list of (id, level) to display
queue == tree.queue
\* cmd_tree: shown, the ids displayed
shown == tree.shown
\* cmd_tree: the rows the generator yielded, in order
yielded == tree.yielded

vars == <<pc, options, kwres, help, cmd_name, cls, verified, bound, session,
          invoked, out, err, failures, results, saved, ret, exc, tree>>

\* cmd_tree is not running
NoTree ==
    tree = [devices |-> <<>>, deps |-> <<>>, queue |-> <<>>, shown |-> {},
            yielded |-> <<>>]

\* the variables of a command invocation, before it starts
Idle ==
    /\ help = FALSE
    /\ cmd_name = <<>>
    /\ cls = [policy |-> "none"]
    /\ verified = EmptyDict
    /\ bound = [kind |-> "none"]
    /\ session = [hosts |-> <<>>, unconnected |-> {}]
    /\ invoked = <<>>
    /\ out = <<>>
    /\ err = <<>>
    /\ failures = <<>>
    /\ results = <<<<>>, <<>>>>
    /\ saved = EmptyDict
    /\ ret = "unset"
    /\ exc = "none"

invocation == <<help, cmd_name, cls, verified, bound, session, invoked, out, err,
                failures, results, saved, ret, exc>>

(* ------------------------------------------------------------------------ *)
(* Option conversion alone: options_dict2kwargs on an option map.           *)
(* ------------------------------------------------------------------------ *)
InitOpt ==
    /\ pc = "convert"
    /\ options \in OptionMaps
    /\ kwres = [kind |-> "none"]
    /\ Idle
    /\ NoTree

\* a call of options_dict2kwargs(options); the dictionary is iterated in
\* some order
Convert ==
    /\ pc = "convert"
    /\ \E order \in Orders(DOMAIN options) :
          kwres' = options_dict2kwargs(options, order)
    /\ pc' = "converted"
    /\ UNCHANGED <<tree, options, invocation>>

\* options_dict2kwargs called again on the keyword map a first call
\* returned: the identifiers it produced are normalized once more
Renormalize ==
    /\ pc = "converted"
    /\ kwres.kind = "ok"
    /\ \E order \in Orders(DOMAIN kwres.kwargs) :
          kwres' = options_dict2kwargs(kwres.kwargs, order)
    /\ pc' = "renormalized"
    /\ UNCHANGED <<tree, options, invocation>>

NextOpt == Convert \/ Renormalize

SpecOpt == InitOpt /\ [][NextOpt]_vars

(* ------------------------------------------------------------------------ *)
(* A command invocation: a multiplexer with three end-point children, one   *)
(* of each kind, run against a session.                                     *)
(* ------------------------------------------------------------------------ *)
\* most targets of a session
MaxHosts == 2
\* most rows the action of a lister yields for one host
MaxRows == 2

\* Configuration.OUTPUT_WARNING, OUTPUT_INFO, OUTPUT_DEBUG
OUTPUT_WARNING == 0
OUTPUT_INFO == 1
OUTPUT_DEBUG == 2
Verbosities == {OUTPUT_WARNING, OUTPUT_INFO, OUTPUT_DEBUG}

HostNames == <<"h1", "h2", "h3", "h4">>
RowNames == <<"r1", "r2", "r3", "r4">>

\* exceptions an action (or a predicate) can raise
ExcKinds == {"KeyError", "Error"}

\* COMMANDS of the multiplexer: child_commands() (meta.py 397-400)
child_commands ==
    (<<"a">> :> "LmiLister") @@ (<<"b">> :> "LmiShowInstance")
        @@ (<<"c">> :> "LmiCheckResult")

\* tokens that can follow the multiplexer's name on the command line
CmdTokens == DOMAIN child_commands \cup {<<"a", "b">>}

\* the keys docopt can put in the dictionary of an end-point command, the
\* value it stores under each
UsagePool ==
    (<<"<", "a", ">">> :> "v1") @@ (<<"A">> :> "v2")
        @@ (<<"-", "-", "b">> :> "v3") @@ (<<"<", ">">> :> "v4")
        @@ (<<"c">> :> "v5")

\* docopt(self.get_usage(), full_args, help=False) of an end point
DocoptMaps ==
    {[t \in S |-> UsagePool[t]] :
        S \in {S \in SUBSET DOMAIN UsagePool : Cardinality(S) <= MaxOpts}}

\* argspec.args[1:] of the associated function
ParamLists == { <<>>, <<<<"a">>>>, <<<<"a">>, <<"_", "_", "b">>>> }

\* the classes a child name can stand for: the class properties the
\* metaclasses handle, and the argspec of the associated function
Classes(policy) ==
    {[policy |-> policy, variant |-> v, args |-> a, keywords |-> k] :
        v \in CASE policy = "LmiLister"       -> {"COLUMNS", "no COLUMNS"}
                [] policy = "LmiShowInstance" ->
                       {"all", "PROPERTIES", "DYNAMIC_PROPERTIES"}
                [] policy = "LmiCheckResult"  -> {"value", "callable"},
        a \in ParamLists,
        k \in BOOLEAN}

\* a session: its targets in order, those whose connection failed, and the
\* verbosity of the application's configuration (read by LmiCheckResult only)
Sessions(policy) ==
    UNION {{[hosts |-> SubSeq(HostNames, 1, n), unconnected |-> U,
             verbosity |-> v] :
               U \in SUBSET {HostNames[i] : i \in 1..n},
               v \in IF policy = "LmiCheckResult" THEN Verbosities
                                                  ELSE {OUTPUT_WARNING}} :
            n \in 0..MaxHosts}

\* iterating the session yields the connections that were made, in order
Connections(s) == SelectSeq(s.hosts, LAMBDA h : h \notin s.unconnected)

\* session.get_unconnected()
get_unconnected(s) == SelectSeq(s.hosts, LAMBDA h : h \in s.unconnected)

\* len(session)
SessionLen(s) == Len(s.hosts)

\* one thing written to a stream or handed to a formatter
Item(kind, host, n, cols, rows) ==
    [kind |-> kind, host |-> host, n |-> n, cols |-> cols, rows |-> rows]

\* self.get_usage() written to a stream
Usage == Item("usage", "", 0, <<>>, <<>>)

\* lines 416-419, 489-492: the banner of a host
Banner(s, host) ==
    IF SessionLen(s) > 1 THEN <<Item("banner", host, 0, <<>>, <<>>)>> ELSE <<>>

\* a second banner of the host written after its output
Trailer_AsBanner(s, host) ==
    IF SessionLen(s) > 1 THEN <<Item("banner", host, 0, <<>>, <<>>)>> ELSE <<>>

\* lines 422-423, 503-504: the empty line after a host's output
Trailer(s, host) ==
    IF SessionLen(s) > 1 THEN <<Item("newline", host, 0, <<>>, <<>>)>> ELSE <<>>

\* LmiSessionCommand.run_with_args (lines 361-362) calls process_session and
\* has no return statement; LmiEndPointCommand.run returns what it returns
run_with_args(process_session_result) == "None"

Init ==
    /\ pc = "run"
    /\ options = EmptyDict
    /\ kwres = [kind |-> "none"]
    /\ Idle
    /\ NoTree

\* LmiCommandMultiplexer.run with --help looked at only after the dispatch
MuxRun_HelpAfterDispatch ==
    /\ pc = "run"
    /\ \E tok \in CmdTokens, hlp \in BOOLEAN :
          /\ help' = hlp
          /\ cmd_name' = tok
          /\ pc' = "run_subcommand"
    /\ UNCHANGED <<tree, options, kwres, cls, verified, bound, session, invoked,
                   out, err, failures, results, saved, ret, exc>>

\* LmiCommandMultiplexer.run (lines 146-162): docopt parses this level's
\* options; --help is answered here, anything else goes to run_subcommand
MuxRun ==
    /\ pc = "run"
    /\ \E tok \in CmdTokens, hlp \in BOOLEAN :
          /\ help' = hlp
          /\ IF hlp
             THEN /\ out' = Append(out, Usage)
                  /\ ret' = "0"
                  /\ pc' = "done"
                  /\ UNCHANGED cmd_name
             ELSE /\ cmd_name' = tok
                  /\ pc' = "run_subcommand"
                  /\ UNCHANGED <<out, ret>>
    /\ UNCHANGED <<tree, options, kwres, cls, verified, bound, session, invoked,
                   err, failures, results, saved, exc>>

\* run_subcommand without the except clause: the KeyError of the lookup
\* reaches the caller
RunSubcommand_KeyErrorEscapes ==
    /\ pc = "run_subcommand"
    /\ IF cmd_name \notin DOMAIN child_commands
       THEN /\ exc' = "KeyError"
            /\ pc' = "done"
            /\ UNCHANGED cls
       ELSE /\ cls' \in Classes(child_commands[cmd_name])
            /\ pc' = "parse"
            /\ UNCHANGED exc
    /\ UNCHANGED <<tree, options, kwres, help, cmd_name, verified, bound, session,
                   invoked, out, err, failures, results, saved, ret>>

\* LmiCommandMultiplexer.run_subcommand, lines 138-144, up to the call of
\* the child's run(): the lookup of the child and its instantiation
RunSubcommand ==
    /\ pc = "run_subcommand"
    /\ IF cmd_name \notin DOMAIN child_commands
       THEN /\ err' = Append(err, Usage)
            /\ ret' = "1"
            /\ pc' = "done"
            /\ UNCHANGED cls
       ELSE /\ cls' \in Classes(child_commands[cmd_name])
            /\ pc' = "parse"
            /\ UNCHANGED <<err, ret>>
    /\ UNCHANGED <<tree, options, kwres, help, cmd_name, verified, bound, session,
                   invoked, out, failures, results, saved, exc>>

\* LmiEndPointCommand._parse_args (lines 261-290): docopt's dictionary, with
\* the names of the multiplexer's children removed
ParseArgs ==
    /\ pc = "parse"
    /\ \E d \in DocoptMaps :
          options' = [t \in DOMAIN d \ DOMAIN child_commands |-> d[t]]
    /\ pc' = "verify"
    /\ UNCHANGED <<tree, kwres, invocation>>

\* run() with lines 333 and 334 exchanged: transform_options is called
\* first, and verify_options is given what it left
VerifyOptions_AfterTransform ==
    /\ pc = "verify"
    /\ \/ options' = options
       \/ \E t \in DOMAIN options :
             options' = [u \in DOMAIN options \ {t} |-> options[u]]
    /\ verified' = options'
    /\ \E raises \in BOOLEAN :
          IF raises
          THEN exc' = "LmiInvalidOptions" /\ pc' = "unwind"
          ELSE exc' = exc /\ pc' = "bind"
    /\ UNCHANGED <<tree, kwres, help, cmd_name, cls, bound, session, invoked,
                   out, err, failures, results, saved, ret>>

\* verify_options (lines 292-301, 333): a hook; an override may raise
\* LmiInvalidOptions
VerifyOptions ==
    /\ pc = "verify"
    /\ verified' = options
    /\ \E raises \in BOOLEAN :
          IF raises
          THEN exc' = "LmiInvalidOptions" /\ pc' = "unwind"
          ELSE exc' = exc /\ pc' = "transform"
    /\ UNCHANGED <<tree, options, kwres, help, cmd_name, cls, bound, session, invoked,
                   out, err, failures, results, saved, ret>>

\* transform_options (lines 303-311, 334): a hook; an override may modify
\* the dictionary in place (here: leave it, or delete one key)
TransformOptions ==
    /\ pc = "transform"
    /\ \/ options' = options
       \/ \E t \in DOMAIN options :
             options' = [u \in DOMAIN options \ {t} |-> options[u]]
    /\ pc' = "bind"
    /\ UNCHANGED <<tree, kwres, invocation>>

\* what _make_end_point_args returns or raises
Bound(kind, error, cmd, param, args, kwargs) ==
    [kind |-> kind, error |-> error, cmd |-> cmd, param |-> param,
     args |-> args, kwargs |-> kwargs]

\* _make_end_point_args without the test of lines 252-257: a parameter no
\* option covers is passed as None
make_end_point_args_NoCheck(opts, order, c, cmd) ==
    LET r == options_dict2kwargs(opts, order)
    IN  IF r.kind # "ok"
        THEN Bound("error", "LmiError", <<>>, <<>>, <<>>, EmptyDict)
        ELSE
          LET params == {c.args[i] : i \in 1..Len(c.args)}
              kept == IF c.keywords THEN r.kwargs
                      ELSE [k \in DOMAIN r.kwargs \cap params |-> r.kwargs[k]]
          IN  Bound("ok", "none", <<>>, <<>>,
                    [i \in 1..Len(c.args) |->
                        IF c.args[i] \in DOMAIN kept THEN kept[c.args[i]]
                        ELSE "None"],
                    [k \in DOMAIN kept \ params |-> kept[k]])

\* _make_end_point_args without lines 240-249: no option is removed
make_end_point_args_KeepAll(opts, order, c, cmd) ==
    LET r == options_dict2kwargs(opts, order)
    IN  IF r.kind # "ok"
        THEN Bound("error", "LmiError", <<>>, <<>>, <<>>, EmptyDict)
        ELSE
          LET params == {c.args[i] : i \in 1..Len(c.args)}
              missing == {i \in 1..Len(c.args) :
                             c.args[i] \notin DOMAIN r.kwargs}
          IN  IF missing # {}
              THEN LET i == CHOOSE i \in missing : \A j \in missing : i <= j
                   IN  Bound("error", "LmiCommandError", cmd, c.args[i],
                             <<>>, EmptyDict)
              ELSE Bound("ok", "none", <<>>, <<>>,
                         [i \in 1..Len(c.args) |-> r.kwargs[c.args[i]]],
                         [k \in DOMAIN r.kwargs \ params |-> r.kwargs[k]])

\* LmiEndPointCommand._make_end_point_args (lines 226-259) of the command
\* named cmd, of class c; the option dictionary is iterated in `order`
make_end_point_args(opts, order, c, cmd) ==
    LET r == options_dict2kwargs(opts, order)
    IN  IF r.kind # "ok"
        THEN Bound("error", "LmiError", <<>>, <<>>, <<>>, EmptyDict)
        ELSE
          LET params == {c.args[i] : i \in 1..Len(c.args)}
              \* lines 240-249: without **kwargs, unexpected options go
              kept == IF c.keywords THEN r.kwargs
                      ELSE [k \in DOMAIN r.kwargs \cap params |-> r.kwargs[k]]
              missing == {i \in 1..Len(c.args) : c.args[i] \notin DOMAIN kept}
          IN  IF missing # {}
              THEN LET i == CHOOSE i \in missing : \A j \in missing : i <= j
                   IN  Bound("error", "LmiCommandError", cmd, c.args[i],
                             <<>>, EmptyDict)
              ELSE Bound("ok", "none", <<>>, <<>>,
                         [i \in 1..Len(c.args) |-> kept[c.args[i]]],
                         [k \in DOMAIN kept \ params |-> kept[k]])

\* line 335 of LmiEndPointCommand.run
MakeEndPointArgs ==
    /\ pc = "bind"
    /\ \E order \in Orders(DOMAIN options) :
          /\ kwres' = options_dict2kwargs(options, order)
          /\ bound' = make_end_point_args(options, order, cls, cmd_name)
    /\ IF bound'.kind = "error"
       THEN exc' = bound'.error /\ pc' = "unwind"
       ELSE exc' = exc /\ pc' = "run_with_args"
    /\ UNCHANGED <<tree, options, help, cmd_name, cls, verified, session, invoked, out,
                   err, failures, results, saved, ret>>

\* line 336 and LmiSessionCommand.run_with_args (line 362): process_session
\* is entered with the application's session
EnterSession ==
    /\ pc = "run_with_args"
    /\ session' \in Sessions(cls.policy)
    /\ pc' = "session"
    /\ UNCHANGED <<tree, options, kwres, help, cmd_name, cls, verified, bound, invoked,
                   out, err, failures, results, saved, ret, exc>>

\* argspec.args[0] of the associated function, the parameter that takes the
\* connection: named like the option '--b' unless a later parameter is
FirstParameter(c) ==
    IF \E i \in 1..Len(c.args) : c.args[i] = <<"_", "_", "b">>
    THEN <<"n", "s">>
    ELSE <<"_", "_", "b">>

\* self.execute(connection, *args, **kwargs) (lines 407, 483, 562; meta.py
\* 110-112): a keyword named like the first parameter makes the call raise
\* TypeError before the function runs; otherwise the function does o
Execute(c, b, o) ==
    IF FirstParameter(c) \notin DOMAIN b.kwargs THEN o
    ELSE IF c.policy = "LmiLister"
    THEN [o EXCEPT !.atcall = TRUE, !.rows = <<>>, !.exc = "TypeError"]
    ELSE [o EXCEPT !.exc = "TypeError"]

\* the connection the loop of process_session is at, if any
MoreConnections == Len(invoked) < Len(Connections(session))
Connection == Connections(session)[Len(invoked) + 1]

(* ------------------------------------------------------------------------ *)
(* LmiLister.                                                               *)
(* ------------------------------------------------------------------------ *)
\* the rows of a host
Rows(host, n) == [i \in 1..n |-> <<host, RowNames[i]>>]

\* COLUMNS of a lister that declares them
COLUMNS == <<"Level", "DeviceID">>

\* what the associated function of a lister does for a host: it raises when
\* called, or returns a lazy sequence that yields n rows and then ends or
\* raises
ListerOutcomes(host) ==
    {[host |-> host, atcall |-> TRUE, rows |-> <<>>, exc |-> e] :
        e \in ExcKinds}
    \cup {[host |-> host, atcall |-> FALSE, rows |-> Rows(host, n),
           exc |-> e] : n \in 0..MaxRows, e \in ExcKinds \cup {"none"}}

\* take_action taking the header from the first row whatever get_columns()
\* returns
ListerTakeAction_FirstRowHeader(c, o) ==
    IF o.rows # <<>>
    THEN [cols |-> Head(o.rows), data |-> Tail(o.rows), exc |-> "none"]
    ELSE [cols |-> <<>>, data |-> <<>>,
          exc |-> IF o.exc = "none" THEN "StopIteration" ELSE o.exc]

\* LmiLister.take_action (lines 397-412) on an outcome that did not raise
\* when called: [cols, data, exc], exc being what next(res) raised
ListerTakeAction(c, o) ==
    IF c.variant = "COLUMNS"
    THEN [cols |-> COLUMNS, data |-> o.rows, exc |-> "none"]
    ELSE IF o.rows # <<>>
    THEN [cols |-> Head(o.rows), data |-> Tail(o.rows), exc |-> "none"]
    ELSE [cols |-> <<>>, data |-> <<>>,
          exc |-> IF o.exc = "none" THEN "StopIteration" ELSE o.exc]

\* one round of the loop of LmiLister.process_session (lines 415-423)
ListerStep ==
    /\ pc = "session"
    /\ cls.policy = "LmiLister"
    /\ MoreConnections
    /\ \E f \in ListerOutcomes(Connection) :
          LET o == Execute(cls, bound, f)
              banner == Banner(session, o.host)
              ta == ListerTakeAction(cls, o)
              table == Item("table", o.host, Len(ta.data), ta.cols, ta.data)
          IN  /\ invoked' = Append(invoked, o)
              /\ IF o.atcall
                 THEN \* self.execute raises
                      /\ out' = out \o banner
                      /\ exc' = o.exc
                      /\ pc' = "unwind"
                 ELSE IF ta.exc # "none"
                 THEN \* next(res) raises
                      /\ out' = out \o banner
                      /\ exc' = ta.exc
                      /\ pc' = "unwind"
                 ELSE IF o.exc # "none"
                 THEN \* the formatter consumes the rows; the sequence raises
                      /\ out' = out \o banner \o <<table>>
                      /\ exc' = o.exc
                      /\ pc' = "unwind"
                 ELSE /\ out' = out \o banner \o <<table>>
                           \o Trailer(session, o.host)
                      /\ exc' = exc
                      /\ pc' = "session"
    /\ UNCHANGED <<tree, options, kwres, help, cmd_name, cls, verified, bound, session,
                   err, failures, results, saved, ret>>

\* line 424, and the return through run_with_args and run
ListerEnd ==
    /\ pc = "session"
    /\ cls.policy = "LmiLister"
    /\ ~MoreConnections
    /\ ret' = run_with_args("0")
    /\ pc' = "unwind"
    /\ UNCHANGED <<tree, options, kwres, help, cmd_name, cls, verified, bound, session,
                   invoked, out, err, failures, results, saved, exc>>

(* ------------------------------------------------------------------------ *)
(* LmiShowInstance.                                                         *)
(* ------------------------------------------------------------------------ *)
\* what the associated function does for a host: it raises, or returns an
\* instance
ShowOutcomes(host) ==
    {[host |-> host, exc |-> e] : e \in ExcKinds \cup {"none"}}

\* ShowInstanceMetaClass.__new__ (meta.py 287-307): the render() the class
\* gets.  Without PROPERTIES and DYNAMIC_PROPERTIES it is what
\* _make_render_all_properties returns, and that function (lines 222-243)
\* stores its _render in dcl and returns nothing
RenderMethod(c) ==
    IF c.variant = "all" THEN "None" ELSE "render"

\* LmiShowInstance.take_action (lines 475-484): the exception it raises,
\* "none" if it returns the rendered pairs
ShowTakeAction(c, o) ==
    IF o.exc # "none" THEN o.exc
    ELSE IF RenderMethod(c) = "None" THEN "TypeError"
    ELSE "none"

\* one round of the loop of LmiShowInstance.process_session (lines 488-504)
ShowStep ==
    /\ pc = "session"
    /\ cls.policy = "LmiShowInstance"
    /\ MoreConnections
    /\ \E f \in ShowOutcomes(Connection) :
          LET o == Execute(cls, bound, f)
              e == ShowTakeAction(cls, o)
          IN  /\ invoked' = Append(invoked, o)
              /\ IF e = "none"
                 THEN /\ out' = out \o Banner(session, o.host)
                           \o <<Item("instance", o.host, 0, <<>>, <<>>)>>
                           \o Trailer(session, o.host)
                      /\ failures' = failures
                 ELSE /\ out' = out \o Banner(session, o.host)
                           \o Trailer(session, o.host)
                      /\ failures' = Append(failures, <<o.host, e>>)
    /\ UNCHANGED <<tree, pc, options, kwres, help, cmd_name, cls, verified, bound,
                   session, err, results, saved, ret, exc>>

\* the end of process_session with the summary written whether or not a
\* connection failed
ShowEnd_AlwaysSummary ==
    /\ pc = "session"
    /\ cls.policy = "LmiShowInstance"
    /\ ~MoreConnections
    /\ out' = out \o <<Item("unsuccessful", "", Len(failures), <<>>, <<>>),
                       Item("table", "", Len(failures),
                            <<"Host", "Error">>, failures)>>
    /\ ret' = run_with_args("0")
    /\ pc' = "unwind"
    /\ UNCHANGED <<tree, options, kwres, help, cmd_name, cls, verified, bound, session,
                   invoked, err, failures, results, saved, exc>>

\* lines 505-510, and the return through run_with_args and run
ShowEnd ==
    /\ pc = "session"
    /\ cls.policy = "LmiShowInstance"
    /\ ~MoreConnections
    /\ out' = IF Len(failures) > 0
              THEN out \o <<Item("unsuccessful", "", Len(failures), <<>>, <<>>),
                            Item("table", "", Len(failures),
                                 <<"Host", "Error">>, failures)>>
              ELSE out
    /\ ret' = run_with_args("0")
    /\ pc' = "unwind"
    /\ UNCHANGED <<tree, options, kwres, help, cmd_name, cls, verified, bound, session,
                   invoked, err, failures, results, saved, exc>>

(* ------------------------------------------------------------------------ *)
(* Rendering alone: the render() of a LmiShowInstance class on an instance. *)
(* ------------------------------------------------------------------------ *)
\* most entries of a PROPERTIES list
MaxProps == 2

\* names of instance properties, and the values an instance holds
PropNames == {"Name", "Size", "Other"}
PropValues == {"x", "None"}

\* the CIM instances the associated function can return: the properties
\* each exposes, with their values
Instances == UNION {[P -> PropValues] : P \in SUBSET PropNames}

\* an entry of PROPERTIES: a property name, or a pair (name, callable); the
\* callable returns a value or raises
PropertyEntries ==
    {[kind |-> "name", name |-> n, fn |-> "none"] : n \in {"Name", "Size"}}
    \cup {[kind |-> "pair", name |-> "Size", fn |-> f] :
             f \in {"returns", "raises"}}

\* the PROPERTIES lists a class declares (or a function returns, under
\* DYNAMIC_PROPERTIES)
PropertyLists == UNION {SeqsOfLen(PropertyEntries, n) : n \in 0..MaxProps}

\* _render of _make_render_all_properties (meta.py 231-242): one column per
\* property of the instance, None shown as ''
render_all_properties(properties, inst) ==
    LET names == Orders(DOMAIN inst)
        order == CHOOSE o \in names : TRUE
    IN  [column_names |-> order,
         values |-> [i \in 1..Len(order) |->
                        IF inst[order[i]] = "None" THEN "" ELSE inst[order[i]]]]

\* _render of _make_render_with_properties (meta.py 254-284)
render_with_properties(properties, inst) ==
    [column_names |-> [i \in 1..Len(properties) |-> properties[i].name],
     values |-> [i \in 1..Len(properties) |->
        LET prop == properties[i]
        IN  IF prop.kind = "name"
            THEN IF prop.name \notin DOMAIN inst THEN "UNKNOWN"
                 ELSE inst[prop.name]
            ELSE IF prop.fn = "raises" THEN "ERROR"
            ELSE "rendered"]]

\* a render() without the handlers of lines 263-266 and 271-280: an absent
\* property and a failing callable end the rendering
render_NoPlaceholder(variant, properties, inst) ==
    IF variant = "all"
    THEN [exc |-> "TypeError", column_names |-> <<>>, values |-> <<>>]
    ELSE IF \E i \in 1..Len(properties) :
               \/ properties[i].kind = "name"
                     /\ properties[i].name \notin DOMAIN inst
               \/ properties[i].kind = "pair" /\ properties[i].fn = "raises"
    THEN [exc |-> "Error", column_names |-> <<>>, values |-> <<>>]
    ELSE LET r == render_with_properties(properties, inst)
         IN  [exc |-> "none", column_names |-> r.column_names,
              values |-> r.values]

\* self.render(res) of a class of the given variant (meta.py 295-304):
\* [exc, column_names, values]
render(variant, properties, inst) ==
    IF variant = "all"
    THEN \* dcl['render'] is what _make_render_all_properties returns: None
         [exc |-> "TypeError", column_names |-> <<>>, values |-> <<>>]
    ELSE LET r == render_with_properties(properties, inst)
         IN  [exc |-> "none", column_names |-> r.column_names,
              values |-> r.values]

InitRender ==
    /\ pc = "render"
    /\ NoTree
    /\ options = EmptyDict
    /\ kwres = [kind |-> "none"]
    /\ \E v \in {"all", "PROPERTIES", "DYNAMIC_PROPERTIES"},
          props \in PropertyLists, inst \in Instances :
          /\ v = "all" => props = <<>>
          /\ cls = [policy |-> "LmiShowInstance", variant |-> v,
                    properties |-> props]
          /\ invoked = <<[host |-> "h1", exc |-> "none", inst |-> inst]>>
    /\ help = FALSE
    /\ cmd_name = <<>>
    /\ verified = EmptyDict
    /\ bound = [kind |-> "none"]
    /\ session = [hosts |-> <<>>, unconnected |-> {}]
    /\ out = <<>>
    /\ err = <<>>
    /\ failures = <<>>
    /\ results = <<<<>>, <<>>>>
    /\ saved = EmptyDict
    /\ ret = "unset"
    /\ exc = "none"

\* a call of self.render(res) on what the associated function returned,
\* made by take_action inside the try of process_session (command.py 483-484,
\* 494-502): exc is what render() raised, which the handler adds to failures
Render ==
    /\ pc = "render"
    /\ LET r == render(cls.variant, cls.properties, invoked[1].inst)
       IN  /\ exc' = r.exc
           /\ out' = IF r.exc = "none"
                     THEN <<Item("instance", invoked[1].host,
                                 Len(r.column_names), r.column_names,
                                 r.values)>>
                     ELSE out
           /\ failures' = IF r.exc = "none" THEN failures
                          ELSE Append(failures, <<invoked[1].host, r.exc>>)
    /\ pc' = "rendered"
    /\ UNCHANGED <<tree, options, kwres, help, cmd_name, cls, verified, bound,
                   session, invoked, err, results, saved, ret>>

NextRender == Render

SpecRender == InitRender /\ [][NextRender]_vars

(* ------------------------------------------------------------------------ *)
(* LmiCheckResult.                                                          *)
(* ------------------------------------------------------------------------ *)
\* values the associated function returns: a plain value or an
\* LMIReturnValue holding one
Plain(v) == [type |-> "plain", rval |-> v]
Wrapped(v) == [type |-> "LMIReturnValue", rval |-> v]

\* EXPECT of a command that declares a plain value
EXPECT == Plain("0")

\* what the associated function does for a host: it raises or returns a
\* value; `pred` is what a callable EXPECT answers for that value ("raise":
\* it raises)
CheckOutcomes(host) ==
    {[host |-> host, exc |-> e, res |-> Plain("0"), pred |-> "False"] :
        e \in ExcKinds}
    \cup {[host |-> host, exc |-> "none", res |-> r, pred |-> "False"] :
            r \in {Plain("0"), Plain("1"), Wrapped("0")}}
    \cup {[host |-> host, exc |-> "none", res |-> r, pred |-> p] :
            r \in {Plain("0"), Wrapped("0")}, p \in {"True", "raise"}}

\* check_result comparing the returned object itself, an LMIReturnValue
\* not being unwrapped
check_result_NoUnwrap(c, o) ==
    IF c.variant = "callable" THEN o.pred
    ELSE IF EXPECT = o.res THEN "True" ELSE "False"

\* CheckResultMetaClass.__new__ (meta.py 321-347): the check_result() made
\* of EXPECT, applied to (options, result): "True", "False" or "raise"
check_result(c, o) ==
    LET result == IF o.res.type = "LMIReturnValue" THEN Plain(o.res.rval)
                  ELSE o.res
    IN  IF c.variant = "callable" THEN o.pred
        ELSE IF EXPECT = result THEN "True" ELSE "False"

\* what a callable EXPECT is called with, <<>> if it is not called:
\* take_action hands check_result its positional arguments (line 564),
\* and _new_expect (meta.py 325-333) unwraps an LMIReturnValue first
ExpectCall(c, b, o) ==
    IF c.variant = "callable" /\ o.exc = "none"
    THEN <<[what |-> "args", value |-> b.args],
           IF o.res.type = "LMIReturnValue" THEN Plain(o.res.rval) ELSE o.res>>
    ELSE <<>>

\* LmiCheckResult.take_action (lines 550-570): (passed, error)
CheckTakeAction(c, o) ==
    IF o.exc # "none" THEN <<FALSE, o.exc>>
    ELSE IF check_result(c, o) = "raise" THEN <<FALSE, "Error">>
    ELSE <<check_result(c, o) = "True", "None">>

\* one round of the loop of LmiCheckResult.process_session (lines 575-583)
CheckStep ==
    /\ pc = "session"
    /\ cls.policy = "LmiCheckResult"
    /\ MoreConnections
    /\ \E f \in CheckOutcomes(Connection) :
          LET o == Execute(cls, bound, f)
              pe == CheckTakeAction(cls, o)
              passed == pe[1]
              error == pe[2]
          IN  /\ cls.variant = "value" => o.pred = "False"
              /\ invoked' = Append(invoked,
                     o @@ [expect |-> ExpectCall(cls, bound, o)])
              /\ saved' = IF o.exc = "none" THEN (o.host :> o.res) @@ saved
                          ELSE saved
              /\ results' = IF passed
                            THEN <<Append(results[1], <<o.host, error>>),
                                   results[2]>>
                            ELSE <<results[1],
                                   Append(results[2], <<o.host, error>>)>>
              /\ out' = IF ~passed /\ error # "None"
                           /\ session.verbosity >= OUTPUT_DEBUG
                        THEN Append(out, Item("invocation failed", o.host, 0,
                                              <<>>, <<error>>))
                        ELSE out
    /\ UNCHANGED <<tree, pc, options, kwres, help, cmd_name, cls, verified, bound,
                   session, err, failures, ret, exc>>

\* the cell of the failure table for a failed host (lines 593-600)
FailedCell(c, s, sv, host, error) ==
    IF error # "None" THEN <<error>>
    ELSE IF s.verbosity >= OUTPUT_INFO /\ c.variant = "value"
    THEN <<"failed", EXPECT.rval, sv[host].rval>>
    ELSE <<"failed">>

\* the failure table holding the failed connections only when the
\* verbosity is at least OUTPUT_INFO
FailureData_GatedByVerbosity(c, s, failed, sv) ==
    LET unconnected == get_unconnected(s)
        listed == IF s.verbosity >= OUTPUT_INFO THEN failed ELSE <<>>
    IN  [i \in 1..Len(unconnected) |->
            <<unconnected[i], <<"failed to connect">>>>]
        \o [i \in 1..Len(listed) |->
               <<listed[i][1],
                 FailedCell(c, s, sv, listed[i][1], listed[i][2])>>]

\* the failure table with the failed connections listed before the
\* unconnected hosts
FailureData_FailedFirst(c, s, failed, sv) ==
    LET unconnected == get_unconnected(s)
    IN  [i \in 1..Len(failed) |->
            <<failed[i][1], FailedCell(c, s, sv, failed[i][1], failed[i][2])>>]
        \o [i \in 1..Len(unconnected) |->
               <<unconnected[i], <<"failed to connect">>>>]

\* lines 590-601: the rows of the failure table: the unconnected hosts,
\* then the failed connections
FailureData(c, s, failed, sv) ==
    LET unconnected == get_unconnected(s)
    IN  [i \in 1..Len(unconnected) |->
            <<unconnected[i], <<"failed to connect">>>>]
        \o [i \in 1..Len(failed) |->
               <<failed[i][1], FailedCell(c, s, sv, failed[i][1], failed[i][2])>>]

\* the report with failed_runs = len(results[1]): the hosts that failed to
\* connect are listed but not counted
CheckEnd_UnconnectedNotCounted ==
    /\ pc = "session"
    /\ cls.policy = "LmiCheckResult"
    /\ ~MoreConnections
    /\ LET successes ==
               IF session.verbosity >= OUTPUT_INFO
               THEN <<Item("successful", "", Len(results[1]), <<>>, <<>>)>>
               ELSE <<>>
           failed_runs == Len(results[2])
           data == FailureData(cls, session, results[2], saved)
       IN  out' = IF failed_runs > 0
                  THEN out \o successes
                       \o <<Item("unsuccessful", "", failed_runs, <<>>, <<>>),
                            Item("table", "", Len(data),
                                 <<"Name", "Error">>, data)>>
                  ELSE out \o successes
    /\ ret' = run_with_args("None")
    /\ pc' = "unwind"
    /\ UNCHANGED <<tree, options, kwres, help, cmd_name, cls, verified, bound, session,
                   invoked, err, failures, results, saved, exc>>

\* the report without the test of line 584: the count of successful runs
\* is written at any verbosity
CheckEnd_AlwaysSuccesses ==
    /\ pc = "session"
    /\ cls.policy = "LmiCheckResult"
    /\ ~MoreConnections
    /\ LET successes ==
               <<Item("successful", "", Len(results[1]), <<>>, <<>>)>>
           unconnected == get_unconnected(session)
           failed_runs == Len(results[2]) + Len(unconnected)
           data == FailureData(cls, session, results[2], saved)
       IN  out' = IF failed_runs > 0
                  THEN out \o successes
                       \o <<Item("unsuccessful", "", failed_runs, <<>>, <<>>),
                            Item("table", "", Len(data),
                                 <<"Name", "Error">>, data)>>
                  ELSE out \o successes
    /\ ret' = run_with_args("None")
    /\ pc' = "unwind"
    /\ UNCHANGED <<tree, options, kwres, help, cmd_name, cls, verified, bound, session,
                   invoked, err, failures, results, saved, exc>>

\* lines 584-602: the report.  process_session ends without a return
\* statement
CheckEnd ==
    /\ pc = "session"
    /\ cls.policy = "LmiCheckResult"
    /\ ~MoreConnections
    /\ LET successes ==
               IF session.verbosity >= OUTPUT_INFO
               THEN <<Item("successful", "", Len(results[1]), <<>>, <<>>)>>
               ELSE <<>>
           unconnected == get_unconnected(session)
           failed_runs == Len(results[2]) + Len(unconnected)
           data == FailureData(cls, session, results[2], saved)
       IN  out' = IF failed_runs > 0
                  THEN out \o successes
                       \o <<Item("unsuccessful", "", failed_runs, <<>>, <<>>),
                            Item("table", "", Len(data),
                                 <<"Name", "Error">>, data)>>
                  ELSE out \o successes
    /\ ret' = run_with_args("None")
    /\ pc' = "unwind"
    /\ UNCHANGED <<tree, options, kwres, help, cmd_name, cls, verified, bound, session,
                   invoked, err, failures, results, saved, exc>>

(* ------------------------------------------------------------------------ *)
(* Back in the multiplexer.                                                 *)
(* ------------------------------------------------------------------------ *)
\* run_subcommand, lines 140-144: the child's run() returned or raised; a
\* KeyError is answered as an unexpected command
SubcommandReturn ==
    /\ pc = "unwind"
    /\ IF exc = "KeyError"
       THEN /\ err' = Append(err, Usage)
            /\ ret' = "1"
            /\ exc' = "none"
       ELSE UNCHANGED <<err, ret, exc>>
    /\ pc' = "done"
    /\ UNCHANGED <<tree, options, kwres, help, cmd_name, cls, verified, bound, session,
                   invoked, out, failures, results, saved>>

Next ==
    \/ MuxRun
    \/ RunSubcommand
    \/ ParseArgs
    \/ VerifyOptions
    \/ TransformOptions
    \/ MakeEndPointArgs
    \/ EnterSession
    \/ ListerStep
    \/ ListerEnd
    \/ ShowStep
    \/ ShowEnd
    \/ CheckStep
    \/ CheckEnd
    \/ SubcommandReturn

Spec == Init /\ [][Next]_vars

(* ------------------------------------------------------------------------ *)
(* Registration: the metaclasses' __new__ on a class declaration.           *)
(* ------------------------------------------------------------------------ *)
\* most entries of a COMMANDS dictionary
MaxChildren == 2
\* most characters of a CALLABLE string
MaxRefLen == 4

\* names COMMANDS can be keyed by
NamePool ==
    { <<"a">>, <<"a", "-", "1">>, <<"A">>, <<"a", "_">>, <<"<", "a", ">">> }

\* what a value of COMMANDS can be: an end-point command class, a
\* multiplexer class, or something that is no command class
ChildKinds == {"end point", "multiplexer", "not a command"}

\* the COMMANDS a multiplexer class can declare
CommandsValues ==
    {[kind |-> k, map |-> EmptyDict] :
        k \in {"missing", "not a dictionary", "keys not strings"}}
    \cup {[kind |-> "dictionary", map |-> m] :
             m \in UNION {[S -> ChildKinds] :
                   S \in {S \in SUBSET NamePool :
                             Cardinality(S) <= MaxChildren}}}

\* OWN_USAGE and __doc__ as _handle_usage (meta.py 44-82) tells them apart:
\* only OWN_USAGE = True without a __doc__ raises; a class body without a
\* documentation string and without OWN_USAGE has no '__doc__' key
UsageKinds == {"usable", "OWN_USAGE without __doc__", "no __doc__"}

\* the characters of a CALLABLE string
RefAlphabet == {"a", "_", ".", ":", "1"}
RefStrings == UNION {SeqsOfLen(RefAlphabet, n) : n \in 1..MaxRefLen}

\* what CALLABLE can be when it is not a string
RefObjects == {"missing", "None", "function", "value", "named value"}

\* the values of CALLABLE: a string, or another object
Refs ==
    {[type |-> "str", text |-> t] : t \in RefStrings}
    \cup {[type |-> o, text |-> <<>>] : o \in RefObjects}

\* '[a-z_]+(?:\.[a-z_]+)*' on the whole of t
ModulePath(t) ==
    /\ Len(t) >= 1
    /\ \A i \in 1..Len(t) : t[i] \in {"a", "_", "."}
    /\ t[1] # "." /\ t[Len(t)] # "."
    /\ \A i \in 1..(Len(t) - 1) : t[i] = "." => t[i + 1] # "."

\* RE_CALLABLE (meta.py 38-40): the place of the ':' if t matches, else 0
RE_CALLABLE(t) ==
    LET places == {k \in 1..Len(t) :
                      /\ t[k] = ":"
                      /\ ModulePath(SubSeq(t, 1, k - 1))
                      /\ k < Len(t)
                      /\ \A i \in (k + 1)..Len(t) : t[i] \in {"a", "_"}}
    IN  IF places = {} THEN 0 ELSE CHOOSE k \in places : TRUE

\* getattr(__import__(module, ..., [func], 0), func), meta.py 129-131: the
\* module 'a' can be imported; its attribute 'a' is a function, its
\* attribute '_' a value that cannot be called
Import(module, func) ==
    IF module # <<"a">> THEN "ImportError"
    ELSE IF func = <<"a">> THEN "function"
    ELSE IF func = <<"_">> THEN "value"
    ELSE "AttributeError"

\* the declarations registration is run on
Declarations ==
    {[meta |-> "MultiplexerMetaClass", root |-> r, COMMANDS |-> c,
      usage |-> u] :
        r \in BOOLEAN, c \in CommandsValues, u \in UsageKinds}
    \cup {[meta |-> "EndPointCommandMetaClass", CALLABLE |-> f, usage |-> u] :
            f \in Refs, u \in UsageKinds}

\* what __new__ returns or raises
Class(fields) == [kind |-> "class"] @@ fields
Raised(error) == [kind |-> "error", error |-> error]

\* _handle_usage (meta.py 63-69)
handle_usage(d) ==
    IF d.usage = "OWN_USAGE without __doc__"
    THEN "LmiCommandInvalidProperty" ELSE "none"

\* dcl['__doc__'] of a declaration
Doc(d) ==
    IF d.usage = "usable" THEN "__doc__ of the declared class"
    ELSE IF d.usage = "OWN_USAGE without __doc__" THEN "None"
    ELSE "KeyError"

\* the classes a declaration refers to, as they were built
Built(d) ==
    IF d.meta = "MultiplexerMetaClass"
    THEN [n \in DOMAIN d.COMMANDS.map |->
             [kind |-> d.COMMANDS.map[n], doc |-> "__doc__ of its own"]]
    ELSE EmptyDict

\* one turn of the loop over COMMANDS (meta.py 387-396): what it raises
LoopRaises(d, cmd_name_) ==
    IF ~RE_COMMAND_NAME(cmd_name_) THEN "LmiCommandInvalidName"
    ELSE IF d.COMMANDS.map[cmd_name_] = "not a command" THEN "LmiCommandError"
    ELSE IF d.COMMANDS.map[cmd_name_] = "multiplexer" /\ Doc(d) = "KeyError"
    THEN "KeyError"
    ELSE "none"

\* the turns of the loop that ran to their end
LoopDone(d, order) ==
    {i \in 1..Len(order) :
        \A j \in 1..i : LoopRaises(d, order[j]) = "none"}

\* the classes COMMANDS refers to, after MultiplexerMetaClass.__new__: a
\* child that is not an end point is given the __doc__ of the class being
\* declared (meta.py 395-396)
ChildrenAfter(d, order, built) ==
    IF d.root \/ d.COMMANDS.kind # "dictionary" THEN built
    ELSE [n \in DOMAIN built |->
            IF /\ built[n].kind = "multiplexer"
               /\ \E i \in LoopDone(d, order) : order[i] = n
            THEN [built[n] EXCEPT !.doc = Doc(d)]
            ELSE built[n]]

\* MultiplexerMetaClass.__new__ (meta.py 374-409); COMMANDS is iterated in
\* `order`
MultiplexerNew(d, order) ==
    IF d.root THEN Class([child_commands |-> EmptyDict])
    ELSE IF d.COMMANDS.kind = "missing" THEN Raised("LmiCommandError")
    ELSE IF d.COMMANDS.kind = "not a dictionary"
    THEN Raised("LmiCommandInvalidProperty")
    ELSE IF d.COMMANDS.kind = "keys not strings"
    THEN Raised("LmiCommandInvalidProperty")
    ELSE
      LET bad == {i \in 1..Len(order) : LoopRaises(d, order[i]) # "none"}
      IN  IF bad # {}
          THEN LET i == CHOOSE i \in bad : \A j \in bad : i <= j
               IN  Raised(LoopRaises(d, order[i]))
          ELSE IF handle_usage(d) # "none" THEN Raised(handle_usage(d))
          ELSE Class([child_commands |-> d.COMMANDS.map])

\* EndPointCommandMetaClass.__new__ (meta.py 116-150)
EndPointNew(d) ==
    IF handle_usage(d) # "none" THEN Raised(handle_usage(d))
    ELSE
      LET ref == d.CALLABLE.text
          k == IF d.CALLABLE.type = "str" THEN RE_CALLABLE(ref) ELSE 0
          \* lines 119-134: dcl.get('CALLABLE'), a string being looked up
          func == IF d.CALLABLE.type = "missing" THEN "None"
                  ELSE IF d.CALLABLE.type # "str" THEN d.CALLABLE.type
                  ELSE IF k = 0 THEN "LmiCommandInvalidCallable"
                  ELSE Import(SubSeq(ref, 1, k - 1),
                              SubSeq(ref, k + 1, Len(ref)))
      IN  IF func = "LmiCommandInvalidCallable" THEN Raised(func)
          ELSE IF func \in {"ImportError", "AttributeError"}
          THEN Raised("LmiCommandImportFailed")
          \* lines 142-145: the message is made of func.__module__ and
          \* func.__name__
          ELSE IF func = "named value" THEN Raised("LmiCommandInvalidCallable")
          ELSE IF func = "value" THEN Raised("AttributeError")
          \* lines 96-114, 147-150
          ELSE IF func = "None" THEN Class([execute |-> "abstract"])
          ELSE Class([execute |-> func])

InitRegister ==
    /\ pc = "register"
    /\ NoTree
    /\ cls \in Declarations
    /\ kwres = [kind |-> "none"]
    /\ options = EmptyDict
    /\ help = FALSE
    /\ cmd_name = <<>>
    /\ verified = EmptyDict
    /\ bound = [kind |-> "none"]
    /\ session = [hosts |-> <<>>, unconnected |-> {}]
    /\ invoked = <<>>
    /\ out = <<>>
    /\ err = <<>>
    /\ failures = <<>>
    /\ results = <<<<>>, <<>>>>
    /\ saved = Built(cls)
    /\ ret = "unset"
    /\ exc = "none"

\* a class statement whose metaclass is MultiplexerMetaClass
RegisterMultiplexer ==
    /\ pc = "register"
    /\ cls.meta = "MultiplexerMetaClass"
    /\ \E order \in Orders(DOMAIN cls.COMMANDS.map) :
          /\ kwres' = MultiplexerNew(cls, order)
          /\ saved' = ChildrenAfter(cls, order, saved)
    /\ pc' = "registered"
    /\ UNCHANGED <<tree, options, help, cmd_name, cls, verified, bound, session,
                   invoked, out, err, failures, results, ret, exc>>

\* a class statement whose metaclass is EndPointCommandMetaClass
RegisterEndPoint ==
    /\ pc = "register"
    /\ cls.meta = "EndPointCommandMetaClass"
    /\ kwres' = EndPointNew(cls)
    /\ pc' = "registered"
    /\ UNCHANGED <<tree, options, help, cmd_name, cls, verified, bound, session,
                   invoked, out, err, failures, results, saved, ret, exc>>

NextRegister == RegisterMultiplexer \/ RegisterEndPoint

SpecRegister == InitRegister /\ [][NextRegister]_vars

(* ------------------------------------------------------------------------ *)
(* The storage command "device tree": cmd_tree (device_cmd.py 119-175).     *)
(* ------------------------------------------------------------------------ *)
\* most devices loaded, and most dependencies between them
MaxDevices == 2
MaxDeps == 3

\* the ids of the devices and volume groups loaded (lines 124-132)
DevicePool == <<"d1", "d2", "d3", "d4", "d5">>
DeviceIds == {DevicePool[i] : i \in 1..MaxDevices}

\* the lists of (parent id, child id) the associations give (lines 138-148);
\* an association is between loaded devices, and may be found twice
DepLists(ids) == UNION {SeqsOfLen(ids \X ids, n) : n \in 0..MaxDeps}

\* lines 151-157: the queue cmd_tree starts with: the device asked for, or
\* the primordial devices in the order devices.iteritems() gives them
StartQueues(devs, device) ==
    IF device # "None" THEN {<<<<device, 0>>>>}
    ELSE {[i \in 1..Len(o) |-> <<o[i], 0>>] :
             o \in Orders({id \in DOMAIN devs : devs[id]})}

\* line 173: [dep[1] for dep in deps if dep[0] == id]
Children(id) ==
    LET from == SelectSeq(deps, LAMBDA dep : dep[1] = id)
    IN  [i \in 1..Len(from) |-> from[i][2]]

\* lines 174-175: what is appended to the queue for the children of a
\* device shown at the given level
Pushed(children, level) ==
    [i \in 1..Len(children) |->
        <<children[Len(children) + 1 - i], level + 1>>]

\* a row cmd_tree yields (lines 163-167): the level, and the information of
\* the device or, for a device already shown, '*** ' and its id
Row(level, id, marker) == [level |-> level, id |-> id, marker |-> marker]

InitTree ==
    /\ pc = "tree"
    /\ options = EmptyDict
    /\ kwres = [kind |-> "none"]
    /\ Idle
    \* Primordial is read only when no device is asked for (lines 152-156)
    /\ \E device \in DeviceIds \cup {"None"} :
          \E devs \in IF device = "None" THEN [DeviceIds -> BOOLEAN]
                      ELSE {[id \in DeviceIds |-> FALSE]} :
              \E start \in StartQueues(devs, device),
                 list \in DepLists(DeviceIds) :
                  tree = [devices |-> devs, deps |-> list, queue |-> start,
                          shown |-> {}, yielded |-> <<>>]

\* one round of the loop without the test of lines 169-170: the children of
\* a device already shown are queued again
TreeStep_ExpandAgain ==
    /\ pc = "tree"
    /\ queue # <<>>
    /\ LET id == queue[Len(queue)][1]
           level == queue[Len(queue)][2]
           rest == SubSeq(queue, 1, Len(queue) - 1)
       IN  tree' = [tree EXCEPT
                       !.yielded = Append(yielded,
                                          Row(level, id, id \in shown)),
                       !.shown = shown \cup {id},
                       !.queue = rest \o Pushed(Children(id), level)]
    /\ UNCHANGED <<pc, options, kwres, invocation>>

\* one round of the loop of cmd_tree (lines 160-175), up to its yield and
\* on to the next test of the queue
TreeStep ==
    /\ pc = "tree"
    /\ queue # <<>>
    /\ LET id == queue[Len(queue)][1]
           level == queue[Len(queue)][2]
           rest == SubSeq(queue, 1, Len(queue) - 1)
       IN  tree' = [tree EXCEPT
                       !.yielded = Append(yielded,
                                          Row(level, id, id \in shown)),
                       !.shown = shown \cup {id},
                       !.queue = IF id \in shown THEN rest
                                 ELSE rest \o Pushed(Children(id), level)]
    /\ UNCHANGED <<pc, options, kwres, invocation>>

\* line 160: the queue is empty, the generator ends
TreeEnd ==
    /\ pc = "tree"
    /\ queue = <<>>
    /\ pc' = "done"
    /\ UNCHANGED <<options, kwres, invocation, tree>>

NextTree == TreeStep \/ TreeEnd

\* the rows are asked for as long as the generator yields some
SpecTree == InitTree /\ [][NextTree]_vars /\ WF_vars(NextTree)

(* ------------------------------------------------------------------------ *)
(* Properties.                                                              *)
(* ------------------------------------------------------------------------ *)
Range(s) == {s[i] : i \in 1..Len(s)}

\* process_session was entered
SessionEntered == bound.kind = "ok" /\ pc \in {"session", "unwind", "done"}

\* process_session was left, by a return or by an exception
SessionLeft == bound.kind = "ok" /\ pc \in {"unwind", "done"}

\* the tables handed to a formatter, in order
Tables == SelectSeq(out, LAMBDA it : it.kind = "table")

\* the failure count a finished run announced ("There were %d unsuccessful
\* runs on hosts"), 0 if it announced none
AnnouncedFailures ==
    IF \E it \in Range(out) : it.kind = "unsuccessful"
    THEN (CHOOSE it \in Range(out) : it.kind = "unsuccessful").n
    ELSE 0

\* C1: under every aggregation policy an error raised by the action on one
\* connection (or while its lazy result is consumed) does not leave
\* process_session, and the action is still invoked on every later
\* connection: process_session is left only without an exception and with
\* every connection of the session visited.
C1_ErrorsStayWithTheirConnection ==
    SessionLeft =>
        /\ exc = "none"
        /\ Len(invoked) = Len(Connections(session))

\* C2: LmiCheckResult with a plain EXPECT: a visited connection is in the
\* passed list iff the action returned and its result, an LMIReturnValue
\* being unwrapped to its rval, equals EXPECT; a connection whose action
\* raised is in the failed list with the error.
C2_PlainExpect ==
    (cls.policy = "LmiCheckResult" /\ cls.variant = "value") =>
        \A i \in 1..Len(invoked) :
            LET o == invoked[i]
            IN  /\ (\E r \in Range(results[1]) : r[1] = o.host)
                     <=> (o.exc = "none" /\ o.res.rval = "0")
                /\ (\E r \in Range(results[2]) : r[1] = o.host)
                     <=> ~(o.exc = "none" /\ o.res.rval = "0")
                /\ o.exc # "none" => <<o.host, o.exc>> \in Range(results[2])

\* C2's case: a run in which a host passed with an LMIReturnValue, a host
\* failed on a wrong value and a host failed on an exception
C2_Witness ==
    /\ pc = "done"
    /\ cls.policy = "LmiCheckResult" /\ cls.variant = "value"
    /\ \E o \in Range(invoked) :
          /\ o.res = Wrapped("0") /\ o.exc = "none"
          /\ <<o.host, "None">> \in Range(results[1])
    /\ \E o \in Range(invoked) :
          /\ o.exc = "KeyError"
          /\ <<o.host, "KeyError">> \in Range(results[2])

\* C3: under LmiShowInstance and LmiCheckResult every host of
\* session.get_unconnected() is counted as a failure with the reason
\* "failed to connect", without an invocation of the action: the announced
\* failure count is at least their number and the failure table has a row
\* for each.
C3_UnconnectedAreFailures ==
    (SessionLeft /\ cls.policy \in {"LmiShowInstance", "LmiCheckResult"}) =>
        /\ AnnouncedFailures >= Cardinality(session.unconnected)
        /\ \A h \in session.unconnected :
              /\ h \notin {o.host : o \in Range(invoked)}
              /\ \E t \in Range(Tables) :
                    \E r \in Range(t.rows) :
                        r[1] = h /\ r[2] = <<"failed to connect">>

\* a lister's process_session ran to its return statement
ListerCompleted ==
    /\ SessionLeft
    /\ cls.policy = "LmiLister"
    /\ Len(invoked) = Len(Connections(session))
    /\ \A o \in Range(invoked) : o.exc = "none" /\ ~o.atcall

RECURSIVE Flatten(_)
Flatten(ss) == IF ss = <<>> THEN <<>> ELSE Head(ss) \o Flatten(Tail(ss))

\* C4, as stated: a lister with COLUMNS hands the formatter one (columns,
\* rows) pair per invocation, holding the rows of all connections in
\* connection order, so the header is applied exactly once.
C4_OneTablePerInvocation ==
    (ListerCompleted /\ cls.variant = "COLUMNS" /\ Len(invoked) >= 1) =>
        /\ Len(Tables) = 1
        /\ Tables[1].cols = COLUMNS
        /\ Tables[1].rows = Flatten([i \in 1..Len(invoked) |-> invoked[i].rows])

\* C4, amended: a lister with COLUMNS hands the formatter one (columns,
\* rows) pair per connection on which the action returned its row sequence,
\* in connection order, each under the configured header and holding that
\* connection's rows: the header is applied once per connection, and the
\* rows of the pairs, concatenated, are the rows in connection order.
C4_OneTablePerConnection ==
    (cls.policy = "LmiLister" /\ cls.variant = "COLUMNS") =>
        LET served == SelectSeq(invoked, LAMBDA o : ~o.atcall)
        IN  /\ Len(Tables) = Len(served)
            /\ \A i \in 1..Len(served) :
                  /\ Tables[i].host = served[i].host
                  /\ Tables[i].cols = COLUMNS
                  /\ Tables[i].rows = served[i].rows

\* C4's case: a completed lister run over two connections, each with rows
C4_Witness ==
    /\ pc = "done"
    /\ ListerCompleted
    /\ cls.variant = "COLUMNS"
    /\ Len(Tables) = 2
    /\ Tables[1].rows # <<>>
    /\ Tables[2].rows # <<>>

\* C5: a session command that ran to completion, whether or not connections
\* failed, returns the exit code 0 to the caller of run().
C5_RunReturnsZero ==
    ( /\ pc = "done"
      /\ bound.kind = "ok"
      /\ exc = "none"
      /\ err = <<>>
      /\ Len(invoked) >= 1
      /\ Len(invoked) = Len(Connections(session)) )
    => ret = "0"

\* C6: when the token handed to the multiplexer's dispatch is not the name
\* of one of its children, the usage text is written to the error stream,
\* 1 is returned, no exception reaches the caller, no child is instantiated
\* and no action is invoked.
C6_UnknownSubcommand ==
    (cmd_name # <<>> /\ cmd_name \notin DOMAIN child_commands) =>
        /\ pc \in {"run_subcommand", "done"}
        /\ cls.policy = "none"
        /\ invoked = <<>>
        /\ exc = "none"
        /\ pc = "done" => (err = <<Usage>> /\ out = <<>> /\ ret = "1")

\* C6's case: the dispatch of an unknown name has returned
C6_Witness ==
    /\ pc = "done"
    /\ cmd_name = <<"a", "b">>
    /\ ret = "1"
    /\ err = <<Usage>>

\* C7: when the options parsed at the multiplexer hold a true --help, the
\* usage text is written to standard output and 0 is returned before any
\* child is looked up: nothing is handed to run_subcommand, no child is
\* instantiated or run and no action is invoked.
C7_HelpBeforeDispatch ==
    help =>
        /\ pc = "done"
        /\ out = <<Usage>>
        /\ err = <<>>
        /\ ret = "0"
        /\ exc = "none"
        /\ cmd_name = <<>>
        /\ cls.policy = "none"
        /\ invoked = <<>>

\* C7's case: --help was given
C7_Witness == help /\ pc = "done" /\ ret = "0"

\* the parameters of the action (after the connection) that no normalized
\* option name covers
Uncovered ==
    {i \in 1..Len(cls.args) :
        \A t \in DOMAIN options : Recognized(t) => NewName(t) # cls.args[i]}

\* _make_end_point_args has run
BindingDone == bound.kind # "none"

\* C8, as stated: when a parameter of the action is covered by no
\* normalized option name, binding fails with the unbound-parameter command
\* error naming the command and an uncovered parameter, and the action is
\* not invoked.
C8_UnboundParameterError ==
    (BindingDone /\ Uncovered # {}) =>
        /\ bound.kind = "error"
        /\ bound.error = "LmiCommandError"
        /\ bound.cmd = cmd_name
        /\ \E i \in Uncovered : bound.param = cls.args[i]
        /\ invoked = <<>>

\* C8, amended: when a parameter of the action is covered by no normalized
\* option name, binding fails and the action is not invoked on any
\* connection; if the options convert to keyword names the failure is the
\* unbound-parameter command error naming the command and the first
\* uncovered parameter, otherwise it is the error of the conversion.
C8_BindingFails ==
    (BindingDone /\ Uncovered # {}) =>
        /\ bound.kind = "error"
        /\ pc \in {"unwind", "done"}
        /\ invoked = <<>>
        /\ exc = bound.error
        /\ IF kwres.kind = "ok"
           THEN /\ bound.error = "LmiCommandError"
                /\ bound.cmd = cmd_name
                /\ \E i \in Uncovered :
                      /\ \A j \in Uncovered : i <= j
                      /\ bound.param = cls.args[i]
           ELSE bound.error = "LmiError"

\* C8's case: binding failed on the second of two parameters
C8_Witness ==
    /\ pc = "done"
    /\ bound.kind = "error"
    /\ bound.error = "LmiCommandError"
    /\ bound.param = <<"_", "_", "b">>
    /\ Uncovered = {2}

(* ------------------------------------------------------------------------ *)
(* Properties of the option conversion (SpecOpt).                           *)
(* ------------------------------------------------------------------------ *)
\* the pairs of distinct tokens of the option map that normalize alike
ClashPairs ==
    {p \in (DOMAIN options) \X (DOMAIN options) :
        /\ p[1] # p[2]
        /\ Recognized(p[1]) /\ Recognized(p[2])
        /\ NewName(p[1]) = NewName(p[2])}

\* C9, as stated: whenever two distinct tokens of the option map normalize
\* to the same identifier, conversion fails with the ambiguity error naming
\* two such tokens and the shared identifier; when all identifiers are
\* distinct there is no such error.
C9_AmbiguityError ==
    pc = "converted" =>
        IF ClashPairs # {}
        THEN /\ kwres.kind = "clash"
             /\ kwres.names \in ClashPairs
             /\ kwres.new = NewName(kwres.names[1])
        ELSE kwres.kind # "clash"

\* C9, amended: whenever two distinct tokens of the option map normalize to
\* the same identifier, conversion fails and no keyword map is produced:
\* with the ambiguity error naming two such tokens and the shared
\* identifier, or, when the map also holds a token of no recognized shape
\* that is reached first, with the conversion error for that token; when
\* all identifiers are distinct there is no ambiguity error.
C9_ClashFailsConversion ==
    pc = "converted" =>
        IF ClashPairs # {}
        THEN /\ kwres.kind \in {"clash", "convert"}
             /\ kwres.kind = "clash" =>
                   /\ kwres.names \in ClashPairs
                   /\ kwres.new = NewName(kwres.names[1])
             /\ kwres.kind = "convert" =>
                   /\ kwres.names[1] \in DOMAIN options
                   /\ ~Recognized(kwres.names[1])
             /\ (\A t \in DOMAIN options : Recognized(t))
                   => kwres.kind = "clash"
        ELSE kwres.kind # "clash"

\* C9's case: '<a>' and 'A' clash on 'a'
C9_Witness ==
    /\ pc = "converted"
    /\ kwres.kind = "clash"
    /\ {kwres.names[1], kwres.names[2]} = {<<"<", "a", ">">>, <<"A">>}
    /\ kwres.new = <<"a">>

\* what C10 says a token contributes, and how a contribution is normalized
C10_Contribution(t) ==
    IF t[1] = "<" THEN [i \in 1..(Len(t) - 2) |-> t[i + 1]] ELSE t
C10_Normalized(s) ==
    [i \in 1..Len(s) |->
        CASE s[i] \in {"a", "A"} -> "a"
          [] s[i] \in {"b", "B"} -> "b"
          [] s[i] \in {"c", "C"} -> "c"
          [] OTHER -> "_"]
C10_Key(t) == C10_Normalized(C10_Contribution(t))

\* C10: a token of no recognized shape makes the conversion raise; when it
\* returns, the keyword map has exactly one key per token, the token's
\* contribution ('<name>' gives name, every other shape the literal token)
\* lower-cased with every non-letter replaced by '_', and holds under it
\* the token's value unchanged.
C10_Normalization ==
    pc = "converted" =>
        /\ (\E t \in DOMAIN options : ~Recognized(t)) => kwres.kind # "ok"
        /\ \A t \in DOMAIN options :
              (DOMAIN options = {t} /\ ~Recognized(t)) =>
                  (kwres.kind = "convert" /\ kwres.names = <<t>>)
        /\ kwres.kind = "ok" =>
              /\ DOMAIN kwres.kwargs = {C10_Key(t) : t \in DOMAIN options}
              /\ \A t \in DOMAIN options :
                    kwres.kwargs[C10_Key(t)] = options[t]
              /\ <<"<", "a", ">">> \in DOMAIN options
                    => <<"a">> \in DOMAIN kwres.kwargs
              /\ <<"A", "-", "B">> \in DOMAIN options
                    => <<"a", "_", "b">> \in DOMAIN kwres.kwargs
              /\ <<"-", "a">> \in DOMAIN options
                    => <<"_", "a">> \in DOMAIN kwres.kwargs
              /\ <<"-", "-", "a", "-", "b">> \in DOMAIN options
                    => <<"_", "_", "a", "_", "b">> \in DOMAIN kwres.kwargs

\* C10's case: a map of a bracket argument, an upper-case argument and a
\* long option was converted, the values differing
C10_Witness ==
    /\ pc = "converted"
    /\ kwres.kind = "ok"
    /\ DOMAIN options =
          {<<"<", "a", ">">>, <<"A", "-", "B">>, <<"-", "-", "a", "-", "b">>}
    /\ options[<<"<", "a", ">">>] = "v1"
    /\ options[<<"A", "-", "B">>] = "v2"
    /\ kwres.kwargs[<<"a">>] = "v1"
    /\ kwres.kwargs[<<"a", "_", "b">>] = "v2"

\* the identifiers C10 says the first conversion produces
C11_First == {C10_Key(t) : t \in DOMAIN options}

\* C11, as stated: normalizing the identifier that normalization produced
\* for a token of a recognized shape returns that identifier unchanged and
\* does not fail.
C11_Idempotent ==
    pc = "renormalized" =>
        /\ kwres.kind = "ok"
        /\ DOMAIN kwres.kwargs = C11_First

\* C11, amended: the sanitizing step is idempotent (an identifier it
\* produced is left unchanged by it), but converting a produced identifier
\* again returns it unchanged only when it consists of letters alone (the
\* identifiers of '<name>', NAME and bare command names); an identifier
\* holding '_' (those of '-x', '--long-name', NAME-NAME) matches no
\* recognized shape and the second conversion fails on it.
C11_SanitizeIdempotent ==
    pc = "renormalized" =>
        /\ \A k \in C11_First : opt_name_sanitize(k) = k
        /\ IF \A k \in C11_First : "_" \notin Range(k)
           THEN /\ kwres.kind = "ok"
                /\ DOMAIN kwres.kwargs = C11_First
                /\ \A t \in DOMAIN options :
                      kwres.kwargs[C10_Key(t)] = options[t]
           ELSE /\ kwres.kind = "convert"
                /\ kwres.names[1] \in C11_First
                /\ "_" \in Range(kwres.names[1])

\* C11's case: the identifiers of '<a>' and '--a-b' were converted again;
\* the conversion failed on '__a_b'
C11_Witness ==
    /\ pc = "renormalized"
    /\ DOMAIN options = {<<"<", "a", ">">>, <<"-", "-", "a", "-", "b">>}
    /\ kwres.kind = "convert"
    /\ kwres.names = <<<<"_", "_", "a", "_", "b">>>>

(* ------------------------------------------------------------------------ *)
(* Properties of a command invocation (Spec), continued.                    *)
(* ------------------------------------------------------------------------ *)
\* the normalized names of the options binding was given
C12_Names == {C10_Key(t) : t \in DOMAIN options}

\* C12: when the action takes no **kwargs, an option whose normalized name
\* is not a formal parameter is dropped without an error (binding succeeds
\* whenever every parameter after the first is covered) and is not passed:
\* no keyword argument is left, each parameter gets the value of its
\* option, and the first parameter is never bound from an option of its
\* name: every invocation gets the session's connection and none fails on
\* a second value for that parameter.
C12_ExtraOptionsDropped ==
    (BindingDone /\ ~cls.keywords /\ kwres.kind = "ok") =>
        /\ Range(cls.args) \subseteq C12_Names => bound.kind = "ok"
        /\ bound.kind = "ok" =>
              /\ DOMAIN bound.kwargs = {}
              /\ Len(bound.args) = Len(cls.args)
              /\ \A i \in 1..Len(cls.args) : \A t \in DOMAIN options :
                    C10_Key(t) = cls.args[i] => bound.args[i] = options[t]
              /\ \A i \in 1..Len(invoked) :
                    /\ invoked[i].host = Connections(session)[i]
                    /\ invoked[i].exc # "TypeError"

\* C12's case: the options '<a>' and '--b', an action f(__b, a) without
\* **kwargs: '__b' is dropped and the action ran on a connection
C12_Witness ==
    /\ BindingDone /\ ~cls.keywords /\ bound.kind = "ok"
    /\ cls.args = <<<<"a">>>>
    /\ FirstParameter(cls) = <<"_", "_", "b">>
    /\ DOMAIN options = {<<"<", "a", ">">>, <<"-", "-", "b">>}
    /\ bound.args = <<"v1">>
    /\ Len(invoked) >= 1
    /\ invoked[1].exc = "none"

(* ------------------------------------------------------------------------ *)
(* Properties of rendering (SpecRender).                                    *)
(* ------------------------------------------------------------------------ *)
\* C13: with a PROPERTIES list of n entries, rendering an instance yields
\* exactly n labels and n values, the labels being the declared names in
\* the declared order, whatever other properties the instance exposes.
C13_DeclaredProperties ==
    (pc = "rendered" /\ cls.variant = "PROPERTIES") =>
        /\ exc = "none"
        /\ Len(out) = 1
        /\ Len(out[1].cols) = Len(cls.properties)
        /\ Len(out[1].rows) = Len(cls.properties)
        /\ \A i \in 1..Len(cls.properties) :
              /\ out[1].cols[i] = cls.properties[i].name
              /\ (cls.properties[i].kind = "name"
                    /\ cls.properties[i].name \in DOMAIN invoked[1].inst)
                 => out[1].rows[i] = invoked[1].inst[cls.properties[i].name]

\* C13's case: PROPERTIES = ["Name", ("Size", fn)] rendered on an instance
\* that exposes Name and Other
C13_Witness ==
    /\ pc = "rendered" /\ cls.variant = "PROPERTIES"
    /\ Len(cls.properties) = 2
    /\ cls.properties[1].kind = "name" /\ cls.properties[1].name = "Name"
    /\ cls.properties[2].kind = "pair" /\ cls.properties[2].name = "Size"
    /\ DOMAIN invoked[1].inst = {"Name", "Other"}
    /\ out[1].cols = <<"Name", "Size">>

(* ------------------------------------------------------------------------ *)
(* Properties of a command invocation (Spec): LmiShowInstance.              *)
(* ------------------------------------------------------------------------ *)
\* the hosts of the failures LmiShowInstance collected
ShowFailedHosts == [i \in 1..Len(failures) |-> failures[i][1]]

\* C14: a LmiShowInstance class with neither PROPERTIES nor
\* DYNAMIC_PROPERTIES renders every instance its action returns: such a
\* connection has its instance handed to the formatter and is not recorded
\* as a failure.
C14_AllPropertiesRendered ==
    (cls.policy = "LmiShowInstance" /\ cls.variant = "all") =>
        \A i \in 1..Len(invoked) :
            invoked[i].exc = "none" =>
                /\ \E it \in Range(out) :
                      it.kind = "instance" /\ it.host = invoked[i].host
                /\ invoked[i].host \notin Range(ShowFailedHosts)

\* the visited connections on which take_action did not return: the action
\* raised, or the class has no render()
C15_Failed ==
    SelectSeq(invoked,
              LAMBDA o : o.exc # "none" \/ cls.variant = "all")

\* C15: LmiShowInstance writes its summary, the count line and the table
\* of (host, error), iff a connection failed; only after every connection
\* was processed, as the last thing written; the count is the number of
\* failed connections and the table has one row for each of them.
C15_SummaryAfterAll ==
    cls.policy = "LmiShowInstance" =>
        LET announced == {k \in 1..Len(out) : out[k].kind = "unsuccessful"}
            summaries == {k \in 1..Len(out) : out[k].kind = "table"}
        IN  /\ pc = "session" => (announced = {} /\ summaries = {})
            /\ SessionLeft =>
                  /\ Len(invoked) = Len(Connections(session))
                  /\ (announced # {}) <=> (C15_Failed # <<>>)
                  /\ (summaries # {}) <=> (C15_Failed # <<>>)
                  /\ C15_Failed # <<>> =>
                        /\ announced = {Len(out) - 1}
                        /\ summaries = {Len(out)}
                        /\ out[Len(out) - 1].n = Len(C15_Failed)
                        /\ out[Len(out)].cols = <<"Host", "Error">>
                        /\ Len(out[Len(out)].rows) = Len(C15_Failed)
                        /\ \A i \in 1..Len(C15_Failed) :
                              out[Len(out)].rows[i][1] = C15_Failed[i].host

\* C15's case: of two connections the action failed on the second only,
\* and the summary was written
C15_Witness ==
    /\ cls.policy = "LmiShowInstance" /\ pc = "done"
    /\ Len(invoked) = 2
    /\ invoked[1].exc = "none" /\ invoked[2].exc = "KeyError"
    /\ cls.variant = "PROPERTIES"
    /\ out[Len(out)].rows = <<<<"h2", "KeyError">>>>

(* ------------------------------------------------------------------------ *)
(* Properties of a command invocation (Spec): banners and order.            *)
(* ------------------------------------------------------------------------ *)
\* the places of `out` written for a host
PlacesOf(h) == {k \in 1..Len(out) : out[k].host = h}
First(S) == CHOOSE k \in S : \A j \in S : k <= j
Last(S) == CHOOSE k \in S : \A j \in S : k >= j

\* the loop body of process_session ran to its end for the invocation o
RoundCompleted(o) ==
    cls.policy = "LmiLister" =>
        /\ ~o.atcall
        /\ o.exc = "none"
        /\ (cls.variant = "COLUMNS" \/ o.rows # <<>>)

\* C16, as stated: under every policy, when the session holds more than
\* one connection, what is written for a connection starts with a banner
\* of its host and ends with another banner of its host.
C16_BannerBeforeAndAfter ==
    (SessionEntered /\ Len(Connections(session)) > 1) =>
        \A i \in 1..Len(invoked) :
            RoundCompleted(invoked[i]) =>
                LET P == PlacesOf(invoked[i].host)
                IN  /\ P # {}
                    /\ First(P) # Last(P)
                    /\ out[First(P)].kind = "banner"
                    /\ out[Last(P)].kind = "banner"

\* C16, amended: under LmiLister and LmiShowInstance, when len(session) > 1,
\* what is written for a connection starts with one banner of its host and,
\* once the connection is done with, ends with one empty line, which is not
\* a banner; when len(session) <= 1 neither is written; LmiCheckResult
\* writes neither whatever the session.
C16_BannerBeforeNewlineAfter ==
    SessionEntered =>
        LET marks == {k \in 1..Len(out) : out[k].kind \in {"banner", "newline"}}
        IN  IF cls.policy = "LmiCheckResult" \/ SessionLen(session) <= 1
            THEN marks = {}
            ELSE /\ \A k \in marks :
                       \E i \in 1..Len(invoked) : out[k].host = invoked[i].host
                 /\ \A i \in 1..Len(invoked) :
                       LET P == PlacesOf(invoked[i].host)
                       IN  /\ P # {}
                           /\ out[First(P)].kind = "banner"
                           /\ \A k \in P \ {First(P)} : out[k].kind # "banner"
                           /\ RoundCompleted(invoked[i]) =>
                                 /\ out[Last(P)].kind = "newline"
                                 /\ \A k \in P \ {Last(P)} :
                                       out[k].kind # "newline"
                                 /\ \A k \in First(P)..Last(P) : k \in P

\* C16's case: a lister ran over two connections; each table stands
\* between the banner of its host and an empty line
C16_Witness ==
    /\ pc = "done" /\ cls.policy = "LmiLister"
    /\ Len(out) = 6
    /\ [k \in 1..6 |-> out[k].kind]
          = <<"banner", "table", "newline", "banner", "table", "newline">>
    /\ [k \in 1..6 |-> out[k].host] = <<"h1", "h1", "h1", "h2", "h2", "h2">>

\* the place of a host in the session
Pos(h) == CHOOSE i \in 1..Len(session.hosts) : session.hosts[i] = h

\* a sequence of hosts follows the order of the session
InSessionOrder(hs) ==
    \A i, j \in 1..Len(hs) : i < j => Pos(hs[i]) < Pos(hs[j])

\* the hosts of the rows of the failure table, <<>> if none was written
FailureTableHosts ==
    LET T == SelectSeq(out, LAMBDA it : it.kind = "table" /\ it.host = "")
    IN  IF T = <<>> THEN <<>>
        ELSE [i \in 1..Len(T[1].rows) |-> T[1].rows[i][1]]

\* the visited hosts and the hosts of what was written for connections
VisitedHosts == [i \in 1..Len(invoked) |-> invoked[i].host]
BlockHosts ==
    LET B == SelectSeq(out, LAMBDA it : it.host # "")
    IN  [k \in 1..Len(B) |-> B[k].host]

\* connections are visited in session order, and what is written for them
\* is written in that order
C17_VisitOrder ==
    /\ \A i \in 1..Len(invoked) : invoked[i].host = Connections(session)[i]
    /\ \A i, j \in 1..Len(BlockHosts) :
          i < j => Pos(BlockHosts[i]) <= Pos(BlockHosts[j])

\* C17, as stated: connections are visited in session order, their output
\* is written in that order, and the failure lists of LmiShowInstance and
\* LmiCheckResult, unconnected hosts included, list their entries in the
\* order the failures were met going through the session.
C17_FirstSeenOrder ==
    SessionEntered =>
        /\ C17_VisitOrder
        /\ cls.policy \in {"LmiShowInstance", "LmiCheckResult"}
              => InSessionOrder(FailureTableHosts)

\* C17, amended: connections are visited in session order and their output
\* is written in that order; the summary of LmiShowInstance lists the
\* failed connections in the order visited; the failure table of
\* LmiCheckResult lists all unconnected hosts first, then the failed
\* connections in the order visited.
C17_UnconnectedFirst ==
    SessionEntered =>
        /\ C17_VisitOrder
        /\ (cls.policy = "LmiShowInstance" /\ SessionLeft) =>
              /\ InSessionOrder(FailureTableHosts)
              /\ FailureTableHosts = ShowFailedHosts
        /\ (cls.policy = "LmiCheckResult" /\ SessionLeft) =>
              LET n == Cardinality(session.unconnected)
                  hs == FailureTableHosts
              IN  hs # <<>> =>
                    /\ Len(hs) >= n
                    /\ \A i \in 1..n : hs[i] \in session.unconnected
                    /\ InSessionOrder(SubSeq(hs, 1, n))
                    /\ InSessionOrder(SubSeq(hs, n + 1, Len(hs)))
                    /\ \A i \in (n + 1)..Len(hs) :
                          \E o \in Range(invoked) : o.host = hs[i]

\* C17's case: LmiCheckResult failed on the first host and the second host
\* was unconnected: the table lists the second host first
C17_Witness ==
    /\ pc = "done" /\ cls.policy = "LmiCheckResult"
    /\ session.hosts = <<"h1", "h2">> /\ session.unconnected = {"h2"}
    /\ FailureTableHosts = <<"h2", "h1">>

(* ------------------------------------------------------------------------ *)
(* Properties of a command invocation (Spec): LmiCheckResult and verbosity. *)
(* ------------------------------------------------------------------------ *)
\* what the outcome of an invocation makes of a connection, whatever the
\* verbosity: whether it passed, and the error it failed with
C18_Passed(o) ==
    /\ o.exc = "none"
    /\ IF cls.variant = "value" THEN o.res.rval = "0" ELSE o.pred = "True"
C18_Error(o) ==
    IF o.exc # "none" THEN o.exc
    ELSE IF cls.variant = "callable" /\ o.pred = "raise" THEN "Error"
    ELSE "None"
C18_FailedOutcomes == SelectSeq(invoked, LAMBDA o : ~C18_Passed(o))

\* the hosts recorded and reported as failed, and the count announced, are
\* those the session and the outcomes decide
C18_SameFailures ==
    /\ [i \in 1..Len(results[2]) |-> results[2][i][1]]
          = [i \in 1..Len(C18_FailedOutcomes) |-> C18_FailedOutcomes[i].host]
    /\ SessionLeft =>
          /\ FailureTableHosts
                = get_unconnected(session)
                  \o [i \in 1..Len(C18_FailedOutcomes) |->
                         C18_FailedOutcomes[i].host]
          /\ AnnouncedFailures = Len(FailureTableHosts)

\* the row of the failure table for the i-th failed connection
C18_Row(i) ==
    LET T == SelectSeq(out, LAMBDA it : it.kind = "table")
    IN  T[1].rows[Cardinality(session.unconnected) + i]

\* C18, as stated: the failed hosts recorded and reported and the failure
\* count do not depend on the verbosity, which decides nothing but the
\* per-host progress lines and the success count: the reason reported for
\* a failed connection is its error, or "failed", at any verbosity.
C18_VerbosityGatesProgressOnly ==
    (SessionEntered /\ cls.policy = "LmiCheckResult") =>
        /\ C18_SameFailures
        /\ SessionLeft =>
              \A i \in 1..Len(C18_FailedOutcomes) :
                  C18_Row(i)[2]
                     = IF C18_Error(C18_FailedOutcomes[i]) # "None"
                       THEN <<C18_Error(C18_FailedOutcomes[i])>>
                       ELSE <<"failed">>

\* C18, amended: the failed hosts recorded and reported and the failure
\* count do not depend on the verbosity.  The verbosity decides whether
\* the progress line of a connection that failed with an error is printed
\* (OUTPUT_DEBUG), whether the success count is printed (OUTPUT_INFO) and,
\* for a plain EXPECT, whether the reason "failed" of a connection that
\* returned another value is followed by the expected and the returned
\* value (OUTPUT_INFO).
C18_VerbosityKeepsFailures ==
    (SessionEntered /\ cls.policy = "LmiCheckResult") =>
        /\ C18_SameFailures
        /\ LET progress == SelectSeq(out, LAMBDA it :
                                            it.kind = "invocation failed")
               errors == SelectSeq(invoked, LAMBDA o : C18_Error(o) # "None")
           IN  IF session.verbosity >= OUTPUT_DEBUG
               THEN [k \in 1..Len(progress) |-> progress[k].host]
                       = [k \in 1..Len(errors) |-> errors[k].host]
               ELSE progress = <<>>
        /\ SessionLeft =>
              /\ (\E it \in Range(out) : it.kind = "successful")
                    <=> session.verbosity >= OUTPUT_INFO
              /\ \A it \in Range(out) : it.kind = "successful" =>
                    it.n = Len(invoked) - Len(C18_FailedOutcomes)
              /\ \A i \in 1..Len(C18_FailedOutcomes) :
                    LET o == C18_FailedOutcomes[i]
                    IN  C18_Row(i)[2]
                           = IF C18_Error(o) # "None" THEN <<C18_Error(o)>>
                             ELSE IF session.verbosity >= OUTPUT_INFO
                                     /\ cls.variant = "value"
                             THEN <<"failed", "0", o.res.rval>>
                             ELSE <<"failed">>

\* C18's case: at the lowest verbosity a connection failed with an error
\* and another returned an unexpected value; both are reported, no progress
\* line and no success count is printed
C18_Witness ==
    /\ pc = "done" /\ cls.policy = "LmiCheckResult" /\ cls.variant = "value"
    /\ SessionLeft
    /\ session.verbosity = OUTPUT_WARNING
    /\ Len(invoked) = 2
    /\ invoked[1].exc = "KeyError"
    /\ invoked[2].exc = "none" /\ invoked[2].res = Plain("1")
    /\ FailureTableHosts = <<"h1", "h2">>
    /\ AnnouncedFailures = 2
    /\ Len(out) = 2

(* ------------------------------------------------------------------------ *)
(* Properties of registration (SpecRegister).                               *)
(* ------------------------------------------------------------------------ *)
\* the errors of a declaration
DescriptorErrors ==
    {"LmiCommandError", "LmiCommandInvalidProperty", "LmiCommandInvalidName",
     "LmiCommandInvalidCallable", "LmiCommandImportFailed",
     "LmiCommandMissingCallable"}

\* a multiplexer class below the root was registered
MultiplexerRegistered ==
    pc = "registered" /\ cls.meta = "MultiplexerMetaClass" /\ ~cls.root

\* its COMMANDS is a dictionary keyed by names
NamedCommands == cls.COMMANDS.kind = "dictionary"

\* C19: registering a multiplexer fails with a descriptor error, and makes
\* no class, when COMMANDS is missing or empty or when a child name does not
\* match the command-name grammar.
C19_ChildlessOrMisnamed ==
    MultiplexerRegistered =>
        ((\/ cls.COMMANDS.kind = "missing"
          \/ NamedCommands /\ DOMAIN cls.COMMANDS.map = {}
          \/ NamedCommands /\ \E n \in DOMAIN cls.COMMANDS.map :
                \E i \in 1..Len(n) : n[i] \notin {"a", "1", "-"})
         => (kwres.kind = "error" /\ kwres.error \in DescriptorErrors))

\* an end-point class was registered
EndPointRegistered ==
    pc = "registered" /\ cls.meta = "EndPointCommandMetaClass"

\* C20: registering an end-point class resolves CALLABLE at once and fails
\* with a descriptor error when CALLABLE is missing, is a string that is
\* malformed or cannot be resolved, or is or resolves to something that
\* cannot be called.
C20_EagerResolution ==
    EndPointRegistered =>
        LET resolves == \/ cls.CALLABLE.type = "function"
                        \/ cls.CALLABLE.text = <<"a", ":", "a">>
        IN  /\ (resolves /\ cls.usage = "usable")
                  => kwres = Class([execute |-> "function"])
            /\ (~resolves /\ cls.CALLABLE.type # "None")
                  => (kwres.kind = "error" /\ kwres.error \in DescriptorErrors)

(* ------------------------------------------------------------------------ *)
(* Properties of registration (SpecRegister), continued.                    *)
(* ------------------------------------------------------------------------ *)
\* C22: registering a class leaves every class built before it, those its
\* COMMANDS refers to among them, as it was built.
C22_BuiltNodesUnchanged ==
    pc = "registered" => saved = Built(cls)

(* ------------------------------------------------------------------------ *)
(* Properties of rendering (SpecRender), continued.                         *)
(* ------------------------------------------------------------------------ *)
\* C24: rendering an instance with declared properties never fails the
\* connection: a pair whose function raises yields the value "ERROR", a
\* named property the instance does not have yields "UNKNOWN", every other
\* entry yields its value, and nothing is added to the failures.
C24_Placeholders ==
    (pc = "rendered" /\ cls.variant \in {"PROPERTIES", "DYNAMIC_PROPERTIES"})
    => /\ exc = "none"
       /\ failures = <<>>
       /\ Len(out) = 1
       /\ Len(out[1].rows) = Len(cls.properties)
       /\ \A i \in 1..Len(cls.properties) :
             LET prop == cls.properties[i]
                 inst == invoked[1].inst
             IN  /\ out[1].cols[i] = prop.name
                 /\ out[1].rows[i] =
                       IF prop.kind = "pair"
                       THEN IF prop.fn = "raises" THEN "ERROR" ELSE "rendered"
                       ELSE IF prop.name \in DOMAIN inst THEN inst[prop.name]
                       ELSE "UNKNOWN"

\* PROPERTIES = [("Size", failing fn), "Name"] rendered on an instance that
\* has a Name: the row is ("ERROR", the name)
C24_Witness ==
    /\ pc = "rendered" /\ cls.variant = "PROPERTIES"
    /\ Len(cls.properties) = 2
    /\ cls.properties[1].kind = "pair" /\ cls.properties[1].fn = "raises"
    /\ cls.properties[2].kind = "name" /\ cls.properties[2].name = "Name"
    /\ "Name" \in DOMAIN invoked[1].inst
    /\ invoked[1].inst["Name"] = "x"
    /\ out[1].rows = <<"ERROR", "x">>
    /\ failures = <<>>

(* ------------------------------------------------------------------------ *)
(* Properties of a command invocation (Spec): callable EXPECT, run order.   *)
(* ------------------------------------------------------------------------ *)
\* C21: with a callable EXPECT, for every connection whose action returned,
\* the callable is called with the dictionary of parsed options and the
\* value the action returned, and the connection is in the passed list iff
\* the callable answered true.
C21_PredicateArguments ==
    (SessionEntered /\ cls.policy = "LmiCheckResult"
        /\ cls.variant = "callable") =>
        \A i \in 1..Len(invoked) :
            invoked[i].exc = "none" =>
                /\ Len(invoked[i].expect) = 2
                /\ invoked[i].expect[1].what = "options"
                /\ invoked[i].expect[1].value = options
                /\ invoked[i].expect[2] = invoked[i].res
                /\ (\E r \in Range(results[1]) : r[1] = invoked[i].host)
                      <=> invoked[i].pred = "True"

\* C23: run() goes from parsing to verify_options, to transform_options, to
\* the binding, to the execution, in this order; verify_options is given the
\* options as parsed, which it leaves alone and which only
\* transform_options, after it, modifies; and when verify_options or the
\* binding raises, the action is invoked on no connection.
C23_RunOrder ==
    /\ [][/\ pc = "parse" => pc' = "verify"
          /\ pc = "verify" =>
                /\ verified' = options
                /\ options' = options
                /\ bound' = bound
                /\ pc' \in {"transform", "unwind"}
          /\ pc = "transform" =>
                /\ verified' = verified
                /\ bound' = bound
                /\ pc' = "bind"
          /\ pc = "bind" =>
                /\ options' = options
                /\ pc' \in {"run_with_args", "unwind"}
                /\ pc' = "unwind" <=> bound'.kind = "error"
          /\ (pc \in {"verify", "bind"} /\ pc' = "unwind") => exc' # "none"
          /\ pc \in {"parse", "verify", "transform", "bind"}
                => invoked' = <<>>
          /\ invoked' # invoked => (pc = "session" /\ bound.kind = "ok")]_vars
    /\ []((exc = "LmiInvalidOptions" \/ bound.kind = "error")
             => (invoked = <<>> /\ pc \in {"unwind", "done"}))

\* a run whose transform_options removed an option verify_options had seen,
\* and whose action was invoked
C23_Witness ==
    /\ pc = "done"
    /\ bound.kind = "ok"
    /\ DOMAIN verified # DOMAIN options
    /\ invoked # <<>>


(* ------------------------------------------------------------------------ *)
(* Properties of a command invocation (Spec): LmiCheckResult, continued.    *)
(* ------------------------------------------------------------------------ *)
\* an LmiCheckResult command ended, every connection passed and no host
\* was left unconnected
C25_AllPassed ==
    /\ SessionLeft
    /\ cls.policy = "LmiCheckResult"
    /\ results[2] = <<>>
    /\ session.unconnected = {}

\* C25, as stated: when every connection's action returned the expected
\* value and no host is unconnected, an LmiCheckResult command writes
\* nothing to the output stream, whatever the verbosity.
C25_NoOutput ==
    C25_AllPassed => out = <<>>

\* C25, amended: when every connection's action returned the expected value
\* and no host is unconnected, an LmiCheckResult command writes nothing to
\* the output stream below the verbosity OUTPUT_INFO, and at OUTPUT_INFO or
\* above it writes the count of successful runs and nothing else.
C25_NoOutputBelowInfo ==
    C25_AllPassed =>
        out = IF session.verbosity >= OUTPUT_INFO
              THEN <<Item("successful", "", Len(results[1]), <<>>, <<>>)>>
              ELSE <<>>

\* two connections passed at the verbosity OUTPUT_WARNING, and nothing was
\* written
C25_Witness ==
    /\ C25_AllPassed
    /\ pc = "done"
    /\ session.verbosity = OUTPUT_WARNING
    /\ Len(results[1]) = 2
    /\ out = <<>>


(* ------------------------------------------------------------------------ *)
(* Properties of a command invocation (Spec): the dispatch, continued.      *)
(* ------------------------------------------------------------------------ *)
\* C26: the usage text is on the error stream and 1 is returned only when
\* the name handed to the dispatch is not one of the children's; when it is,
\* nothing that happens in the child's run(), a KeyError raised by its
\* action included, is answered as an unexpected command.
C26_UnknownOnlyWhenAbsent ==
    (pc = "done" /\ cmd_name \in DOMAIN child_commands) =>
        /\ Usage \notin Range(err)
        /\ (\E i \in 1..Len(invoked) : invoked[i].exc = "KeyError")
              => ret # "1"


\* how many times a host is in a list of (hostname, error) pairs
C27_Count(host, list) == Cardinality({i \in 1..Len(list) : list[i][1] = host})

\* C27: at every point of LmiCheckResult.process_session each connection
\* visited so far is exactly once in the passed and failed lists taken
\* together, so that their lengths add up to the number of connections
\* visited; and the count of unsuccessful runs announced at the end is the
\* number of failed connections plus that of the unconnected hosts, which
\* is the number of rows of the failure table.
C27_Partition ==
    (SessionEntered /\ cls.policy = "LmiCheckResult") =>
        /\ Len(results[1]) + Len(results[2]) = Len(invoked)
        /\ \A i \in 1..Len(invoked) :
              C27_Count(invoked[i].host, results[1])
                 + C27_Count(invoked[i].host, results[2]) = 1
        /\ SessionLeft =>
              /\ AnnouncedFailures
                    = Len(results[2]) + Len(get_unconnected(session))
              /\ AnnouncedFailures = Len(FailureTableHosts)

\* a finished run over two hosts, one that failed to connect and one whose
\* check failed: two unsuccessful runs announced, two rows
C27_Witness ==
    /\ SessionLeft /\ cls.policy = "LmiCheckResult"
    /\ pc = "done"
    /\ Len(get_unconnected(session)) = 1
    /\ Len(results[2]) = 1
    /\ AnnouncedFailures = 2
    /\ Len(FailureTableHosts) = 2


(* ------------------------------------------------------------------------ *)
(* Properties of cmd_tree (SpecTree).                                       *)
(* ------------------------------------------------------------------------ *)
\* the entries of a list of (id, level) or of rows that are below level 0
C28_Below(levels) == Cardinality({i \in 1..Len(levels) : levels[i] > 0})

\* the dependencies whose parent was shown
C28_Expanded == Cardinality({k \in 1..Len(deps) : deps[k][1] \in shown})

\* C28: cmd_tree ends on every set of devices and list of dependencies, a
\* device reached along several paths or on a cycle included: the children
\* of a device are queued once, when it is first shown, so that what was
\* yielded or waits below level 0 is one entry per dependency of a shown
\* device; a row is a '*** <id>' marker exactly when its device was yielded
\* before; and a row below level 0 is a child of a device shown one level
\* above it.
C28_TreeTerminates ==
    /\ <>(pc = "done")
    /\ [](pc = "done" => queue = <<>>)
    /\ [](C28_Below([i \in 1..Len(yielded) |-> yielded[i].level])
             + C28_Below([i \in 1..Len(queue) |-> queue[i][2]])
          = C28_Expanded)
    /\ [](\A i \in 1..Len(yielded) :
             /\ yielded[i].marker
                   <=> \E j \in 1..(i - 1) : yielded[j].id = yielded[i].id
             /\ yielded[i].level > 0 =>
                   \E j \in 1..(i - 1) :
                       /\ ~yielded[j].marker
                       /\ yielded[j].level + 1 = yielded[i].level
                       /\ \E k \in 1..Len(deps) :
                             deps[k] = <<yielded[j].id, yielded[i].id>>)
    /\ [](shown = {yielded[i].id : i \in 1..Len(yielded)})

\* the tree of d1 where d1 and d2 depend on each other: d1, its child d2,
\* and below it the marker of d1
C28_Witness ==
    /\ pc = "done"
    /\ deps = <<<<"d1", "d2">>, <<"d2", "d1">>>>
    /\ yielded = <<Row(0, "d1", FALSE), Row(1, "d2", FALSE),
                   Row(2, "d1", TRUE)>>

====
